---- MODULE Spec2Model ----
(***************************************************************************)
(* Indexing and retrieval engine of ai-skating:                            *)
(*   src/src/transformer/vector_store.py  VectorStore                      *)
(*   src/src/transformer/pipeline.py      AthleteIndexingPipeline          *)
(*   src/src/transformer/chunker.py       TextChunker                      *)
(*   src/src/generator/retriever.py       FAISSRetriever                   *)
(*   src/src/utils/__init__.py            format_score                     *)
(*                                                                         *)
(* One VectorStore instance (the in-memory FAISS index, the id-mapping and *)
(* the next-id counter), the Metadata Store collection in MongoDB, the two *)
(* persisted index files in their directory and one FAISSRetriever         *)
(* instance.  Every public method, and the clear command of                *)
(* src/src/transformer/cli.py, is one action; the faults the try/except    *)
(* blocks anticipate (a MongoDB call or a file operation raising) are      *)
(* inputs of the actions.  The loop of TextChunker.split_text, and the     *)
(* construction, the index_chunks calls and the file operations of two     *)
(* further VectorStore instances sharing the index path, are followed one  *)
(* step at a time, and so are the stages of a process_athlete_indexing     *)
(* call.  A VectorStore whose embedding_dimension varies is followed by   *)
(* the dimensions and sizes of its index and files, and a filtered         *)
(* retrieve call is applied to indexes of many chunks.                     *)
(*                                                                         *)
(* Abstractions: a text is represented by its character and token counts;  *)
(* embeddings are integer vectors with at most one non-zero coordinate, on *)
(* which L2 normalisation is exact (each coordinate becomes its sign);     *)
(* metadata fields no modelled operation reads (text, token_count,         *)
(* embedding_model, indexed_at) are left out of the Metadata Document.     *)
(* Every stored vector carries, as a ghost field `oid`, the key of the     *)
(* Metadata Document that was inserted together with it.                   *)
(***************************************************************************)
EXTENDS Integers, Sequences, FiniteSets, TLC

VARIABLES
    index,                    \* VectorStore.index: the flat store, a sequence of vectors
    faiss_id_to_metadata_id,  \* VectorStore.faiss_id_to_metadata_id: faiss id -> str(ObjectId)
    next_faiss_id,            \* VectorStore.next_faiss_id
    metadata_collection,      \* MongoDB collection <name>_metadata: set of Metadata Documents
    next_oid,                 \* MongoDB's ObjectId generator (next key to hand out)
    index_file,               \* <index_path>/faiss.index
    mapping_file,             \* <index_path>/id_mapping.pkl
    index_dir,                \* the directory <index_path> exists
    retriever,                \* the FAISSRetriever instance
    last,                     \* the last operation and its outcome (history)
    chunker,                  \* a TextChunker instance and its split_text call
    writers,                  \* two more VectorStore instances on the same index path
    formatted,                \* the last format_score call: argument and result
    staged,                      \* a process_athlete_indexing call followed stage by stage
    dim_store,                \* a VectorStore of any embedding_dimension and its index files
    probe                     \* a retrieve call on an index of many vectors: arguments and result

vars == <<index, faiss_id_to_metadata_id, next_faiss_id, metadata_collection,
          next_oid, index_file, mapping_file, index_dir, retriever, last,
          chunker, writers, formatted, staged, dim_store, probe>>

\* the variables of the staged run, the dimensioned store and the probe
scenarios == <<staged, dim_store, probe>>

\* the variables the store, pipeline and retriever operations leave alone
others == <<chunker, writers, formatted, scenarios>>

\* the variables of the store, the pipeline and the retriever
engine == <<index, faiss_id_to_metadata_id, next_faiss_id, metadata_collection,
            next_oid, index_file, mapping_file, index_dir, retriever, last>>

----------------------------------------------------------------------------
(* Bounds of the model *)

\* Metadata Documents inserted in one behaviour (ObjectIds handed out)
MaxOid == 2
\* chunks in one direct VectorStore.index_chunks call
MaxBatch == 2
\* top_k of a search
MaxK == 2
\* athletes in one process_all_athletes call
MaxNames == 2
\* scores passed to format_score, in thousandths
MaxMilli == 60
\* chunk_size and chunk_overlap of a TextChunker
MaxChunkSize == 3
\* tokens of a text passed to split_text
MaxTokens == 7
\* Metadata Documents inserted by the concurrent writers
MaxWriterDocs == 3
\* embedding_dimension of a VectorStore
MaxDimension == 3
\* indexed chunks of the athlete a filtered retrieve is not about
MaxOthers == 21
\* indexed chunks of the athlete a filtered retrieve is about
MaxOwn == 2

----------------------------------------------------------------------------
(* Configuration and the data the pipeline reads *)

\* IndexingConfig, scaled down (defaults: 768, 1000, 200)
Config == [vector_dimension |-> 2, chunk_size |-> 3, chunk_overlap |-> 1]

\* fetch_documents discards passages whose stripped text is shorter than this
MinTextLength == 100

\* the raw crawl results (firecrawl_results): nested documents with a web array
source_collection == <<
    [id |-> "r1", athlete_name |-> "A",
     web |-> << [chars |-> 150, tokens |-> 2],
                [chars |-> 40,  tokens |-> 1] >>],
    [id |-> "r2", athlete_name |-> "B",
     web |-> << [chars |-> 150, tokens |-> 4] >>] >>

Athletes == {"A", "B"}

\* "no athlete filter" (athlete_name=None)
NoAthlete == "None"

----------------------------------------------------------------------------
(* Vectors *)

Min(a, b) == IF a <= b THEN a ELSE b

Sign(x) == IF x > 0 THEN 1 ELSE IF x < 0 THEN 0 - 1 ELSE 0

\* faiss.normalize_L2 on a vector with at most one non-zero coordinate:
\* v / |v| has the sign of each coordinate; the zero vector is left as it is
normalize_L2(v) == [i \in DOMAIN v |-> Sign(v[i])]

RECURSIVE InnerProductUpTo(_, _, _)
InnerProductUpTo(a, b, n) ==
    IF n = 0 THEN 0 ELSE a[n] * b[n] + InnerProductUpTo(a, b, n - 1)

\* the metric of IndexFlatIP
InnerProduct(a, b) == InnerProductUpTo(a, b, Len(a))

\* the mapping of a fresh instance: {}
EmptyMapping == [k \in {} |-> ""]

\* dict assignment m[k] = v
DictSet(m, k, v) == [x \in (DOMAIN m) \cup {k} |-> IF x = k THEN v ELSE m[x]]

\* str(ObjectId): the key as stored in the id-mapping
StrOid(oid) == "oid" \o ToString(oid)

----------------------------------------------------------------------------
(* TextChunker *)

\* TextChunker.split_text: the windows over a text of doc.tokens tokens;
\* doc.chars is the length of the stripped text (0: empty or whitespace-only)
RECURSIVE StrideWindows(_, _, _)
StrideWindows(total_tokens, start, chunk_index) ==
    IF start < total_tokens
    THEN LET end == Min(start + Config.chunk_size, total_tokens) IN
         << [chunk_index |-> chunk_index, start |-> start,
             token_count |-> end - start] >>
         \o StrideWindows(total_tokens,
                          start + Config.chunk_size - Config.chunk_overlap,
                          chunk_index + 1)
    ELSE << >>

split_text(chars, total_tokens) ==
    IF chars = 0 THEN << >>
    ELSE IF total_tokens <= Config.chunk_size
    THEN << [chunk_index |-> 0, start |-> 0, token_count |-> total_tokens] >>
    ELSE StrideWindows(total_tokens, 0, 0)

\* TextChunker.split_documents followed by split_into_chunks: the chunk
\* dictionaries of a list of processed documents
RECURSIVE split_documents(_)
split_documents(documents) ==
    IF documents = << >> THEN << >>
    ELSE LET doc == Head(documents)
             windows == split_text(doc.chars, doc.tokens)
         IN  [k \in 1..Len(windows) |->
                 [source_doc_id |-> doc.id,
                  athlete_name  |-> doc.athlete_name,
                  chunk_index   |-> windows[k].chunk_index,
                  token_count   |-> windows[k].token_count]]
             \o split_documents(Tail(documents))

----------------------------------------------------------------------------
(* EmbeddingGenerator *)

\* the embedding model: a deterministic function of the chunk text, which
\* is identified here by the passage and the window
Encode(source_doc_id, chunk_index) ==
    CASE source_doc_id = "r1_0"                    -> << 2, 0 >>
      [] source_doc_id = "r2_0" /\ chunk_index = 0 -> << 0, 3 >>
      [] source_doc_id = "r2_0" /\ chunk_index > 0 -> << 2, 0 >>
      [] OTHER                                     -> << 0, 0 - 1 >>

\* EmbeddingGenerator.embed_chunks: adds the embedding to every chunk
embed_chunks(chunks) ==
    [k \in 1..Len(chunks) |->
        [source_doc_id |-> chunks[k].source_doc_id,
         athlete_name  |-> chunks[k].athlete_name,
         chunk_index   |-> chunks[k].chunk_index,
         token_count   |-> chunks[k].token_count,
         embedding     |-> Encode(chunks[k].source_doc_id, chunks[k].chunk_index)]]

----------------------------------------------------------------------------
(* AthleteIndexingPipeline.fetch_documents *)

\* the flat document built for web[idx] of a raw document
ProcessedDoc(doc, idx) ==
    [id           |-> doc.id \o "_" \o ToString(idx),
     athlete_name |-> doc.athlete_name,
     chars        |-> doc.web[idx + 1].chars,
     tokens       |-> doc.web[idx + 1].tokens]

\* the passages of one raw document that are long enough
WebPassages(doc) ==
    SelectSeq([k \in 1..Len(doc.web) |-> ProcessedDoc(doc, k - 1)],
              LAMBDA p : p.chars >= MinTextLength)

RECURSIVE ProcessedDocuments(_, _)
ProcessedDocuments(raw_documents, athlete_name) ==
    IF raw_documents = << >> THEN << >>
    ELSE (IF Head(raw_documents).athlete_name = athlete_name
          THEN WebPassages(Head(raw_documents)) ELSE << >>)
         \o ProcessedDocuments(Tail(raw_documents), athlete_name)

\* VectorStore.get_indexed_doc_ids: the $match / $group aggregation
get_indexed_doc_ids(metadata, athlete_name) ==
    { d.source_doc_id : d \in { x \in metadata : x.athlete_name = athlete_name } }

fetch_documents(metadata, athlete_name, skip_indexed) ==
    LET processed_documents == ProcessedDocuments(source_collection, athlete_name)
        indexed_doc_ids == get_indexed_doc_ids(metadata, athlete_name)
    IN  IF skip_indexed
        THEN SelectSeq(processed_documents, LAMBDA doc : doc.id \notin indexed_doc_ids)
        ELSE processed_documents

----------------------------------------------------------------------------
(* Faults: the calls that may raise during one operation *)

NoFault == [kind |-> "none", at |-> 0]

\* MongoDB calls of index_chunks on the chunk at position `at`:
\* find_one (the duplicate lookup, not caught) and insert_one (caught)
ChunkFaults(n) == [kind : {"find_one", "insert_one"}, at : 1..n]

\* index.add, and the two writes of _save_index: faiss.write_index raising
\* before it wrote anything, open() of the mapping file raising, pickle.dump
\* raising after open() truncated the file
AddFaults == [kind : {"index_add"}, at : {0}]
SaveFaults == [kind : {"write_index", "open_mapping", "dump_mapping"}, at : {0}]

\* the calls of a pipeline run before the index stage: the source query or
\* the indexed-ids aggregation (fetch), and the embedding model (embed)
StageFaults == [kind : {"fetch", "encode"}, at : {0}]

\* the faults an operation on a batch of n chunks is exposed to: those of
\* the file writes (file_faults), or those of the MongoDB, embedding and
\* FAISS calls
CallFaults(n, file_faults) ==
    IF file_faults THEN {NoFault} \cup SaveFaults
    ELSE {NoFault} \cup ChunkFaults(n) \cup AddFaults

\* rebuild_index: metadata_collection.find() (not caught), or the writes
\* of _save_index
RebuildFaults == {NoFault, [kind |-> "find", at |-> 0]} \cup SaveFaults

\* close: the writes of _save_index
CloseFaults == {NoFault} \cup SaveFaults

\* clear_index: shutil.rmtree of the index directory, or delete_many on the
\* Metadata Store; each is caught and printed on its own
ClearFaults == {NoFault, [kind |-> "rmtree", at |-> 0], [kind |-> "delete_all", at |-> 0]}

\* the faults of the given kinds, and no fault
OfKinds(faults, fault_kinds) == { f \in faults : f.kind \in fault_kinds \cup {"none"} }

\* the kinds of the faults of the file operations (file_faults), or of the
\* MongoDB, embedding and FAISS calls
FaultKinds(file_faults) ==
    IF file_faults THEN {"write_index", "open_mapping", "dump_mapping", "rmtree"}
    ELSE {"find_one", "insert_one", "index_add", "fetch", "encode", "find", "delete_all"}

RunFaults(n, file_faults) ==
    IF file_faults THEN {NoFault} \cup SaveFaults
    ELSE {NoFault} \cup StageFaults \cup ChunkFaults(n) \cup AddFaults

----------------------------------------------------------------------------
(* The persisted index files *)

AbsentIndexFile == [st |-> "absent", vecs |-> << >>]
AbsentMappingFile == [st |-> "absent", mapping |-> EmptyMapping, next_id |-> 0]
CorruptMappingFile == [st |-> "corrupt", mapping |-> EmptyMapping, next_id |-> 0]

\* faiss.write_index: the blob of the flat store
WriteIndex(vecs) == [st |-> "ok", vecs |-> vecs]

\* pickle.dump({'mapping': ..., 'next_id': ...})
DumpMapping(mapping, next_id) == [st |-> "ok", mapping |-> mapping, next_id |-> next_id]

\* the fault _save_index meets: faiss.write_index raises when the index
\* directory is gone (only __init__ creates it)
SaveFault(dir, fault) ==
    IF dir THEN fault ELSE [kind |-> "write_index", at |-> 0]

\* VectorStore._save_index: the files after the call; every exception is
\* caught and logged, the call always returns
SaveIndexFile(vecs, old_index_file, fault) ==
    IF fault.kind = "write_index" THEN old_index_file ELSE WriteIndex(vecs)

SaveMappingFile(mapping, next_id, old_mapping_file, fault) ==
    CASE fault.kind \in {"write_index", "open_mapping"} -> old_mapping_file
      [] fault.kind = "dump_mapping" -> CorruptMappingFile
      [] OTHER -> DumpMapping(mapping, next_id)

\* a fresh instance, as __init__ sets it up before _load_index
FreshStore == [index |-> << >>, mapping |-> EmptyMapping, next_id |-> 0]

\* VectorStore._load_index: the state of an instance constructed on the files
LoadIndex(ifile, mfile) ==
    IF ifile.st # "absent" /\ mfile.st # "absent"
    THEN IF ifile.st # "ok" \/ mfile.st # "ok"
         THEN FreshStore
         ELSE [index |-> ifile.vecs, mapping |-> mfile.mapping, next_id |-> mfile.next_id]
    ELSE FreshStore

\* FAISSRetriever._load_faiss_index: FileNotFoundError when a file is
\* missing, the reader's exception when a file is unreadable
LoadFaissIndex(ifile, mfile) ==
    IF ifile.st # "ok" \/ mfile.st # "ok"
    THEN [status |-> "raised", index |-> << >>, mapping |-> EmptyMapping]
    ELSE [status |-> "loaded", index |-> ifile.vecs, mapping |-> mfile.mapping]

----------------------------------------------------------------------------
(* VectorStore.index_chunks *)

\* the Metadata Document inserted for a chunk
MetadataDoc(chunk, faiss_id, oid) ==
    [id            |-> oid,
     faiss_id      |-> faiss_id,
     athlete_name  |-> chunk.athlete_name,
     chunk_index   |-> chunk.chunk_index,
     source_doc_id |-> chunk.source_doc_id]

\* mutant of FindDuplicate: the filter is built from the wrong chunk field
FindDuplicate_WrongField(metadata, chunk) ==
    \E d \in metadata : /\ d.source_doc_id = chunk.athlete_name
                        /\ d.chunk_index = chunk.chunk_index

\* metadata_collection.find_one(duplicate_filter) finds a document
FindDuplicate(metadata, chunk) ==
    \E d \in metadata : /\ d.source_doc_id = chunk.source_doc_id
                        /\ d.chunk_index = chunk.chunk_index

\* mutant of InvalidEmbedding: the length is not compared with the dimension
InvalidEmbedding_EmptyOnly(embedding) == Len(embedding) = 0

\* the embedding check of index_chunks
InvalidEmbedding(embedding) ==
    Len(embedding) = 0 \/ Len(embedding) # Config.vector_dimension

\* the for loop of index_chunks from position i on; s is the state of the
\* call: the collection, the mapping, the counters, embeddings_to_add,
\* inserted_count, the number of chunks skipped as duplicates, whether an
\* insert failed, whether an exception left the loop, and the writes made
\* so far in their order (events)
RECURSIVE IndexLoop(_, _, _, _, _)
IndexLoop(chunks, i, s, skip_duplicates, fault) ==
    IF i > Len(chunks) THEN s
    ELSE LET chunk == chunks[i] IN
         IF skip_duplicates /\ fault = [kind |-> "find_one", at |-> i]
         THEN [s EXCEPT !.raised = TRUE]
         ELSE IF skip_duplicates /\ FindDuplicate(s.metadata, chunk)
         THEN IndexLoop(chunks, i + 1, [s EXCEPT !.duplicates = @ + 1],
                        skip_duplicates, fault)
         ELSE IF InvalidEmbedding(chunk.embedding)
         THEN IndexLoop(chunks, i + 1, s, skip_duplicates, fault)
         ELSE IF fault = [kind |-> "insert_one", at |-> i]
         THEN IndexLoop(chunks, i + 1, [s EXCEPT !.dropped = TRUE],
                        skip_duplicates, fault)
         ELSE IndexLoop(chunks, i + 1,
                  [s EXCEPT
                     !.metadata = @ \cup {MetadataDoc(chunk, s.next_id, s.next_oid)},
                     !.to_add   = Append(@, [vec |-> normalize_L2(chunk.embedding),
                                             oid |-> s.next_oid]),
                     !.mapping  = DictSet(@, s.next_id, StrOid(s.next_oid)),
                     !.next_id  = @ + 1,
                     !.next_oid = @ + 1,
                     !.inserted = @ + 1,
                     !.events   = Append(@, "insert")],
                  skip_duplicates, fault)

\* mutant of ReachesBatchAdd: the vectors collected so far are added even
\* when the loop was left by an exception (as an add per chunk would)
ReachesBatchAdd_AfterRaise(s) == s.to_add # << >>

\* the batch add is reached with something to add: the loop was left
\* normally and embeddings_to_add is not empty
ReachesBatchAdd(s) == ~s.raised /\ s.to_add # << >>

\* mutant of IndexAdd: the batch replaces the stored vectors
IndexAdd_Replaces(vecs, to_add) == to_add

\* index.add(embeddings_array): the flat store with the batch appended
IndexAdd(vecs, to_add) == vecs \o to_add

\* the whole call on the store state st; the result carries the new store
\* state, whether the call raised, the returned count and the writes of the
\* call in their order: one "insert" per insert_one that succeeded, "add"
\* for index.add and "save" for _save_index
index_chunks(st, chunks, skip_duplicates, fault) ==
    LET s0 == [metadata |-> st.metadata, mapping |-> st.mapping,
               next_id |-> st.next_id, next_oid |-> st.next_oid,
               to_add |-> << >>, inserted |-> 0, duplicates |-> 0,
               raised |-> FALSE, dropped |-> FALSE, events |-> << >>]
        s  == IndexLoop(chunks, 1, s0, skip_duplicates, fault)
        add_raises == ReachesBatchAdd(s) /\ fault.kind = "index_add"
        appended == ReachesBatchAdd(s) /\ ~add_raises
    IN  [index    |-> IF appended THEN IndexAdd(st.index, s.to_add) ELSE st.index,
         mapping  |-> s.mapping,
         next_id  |-> s.next_id,
         metadata |-> s.metadata,
         next_oid |-> s.next_oid,
         index_file |->
             IF appended
             THEN SaveIndexFile(IndexAdd(st.index, s.to_add), st.index_file,
                                SaveFault(st.dir, fault))
             ELSE st.index_file,
         mapping_file |->
             IF appended
             THEN SaveMappingFile(s.mapping, s.next_id, st.mapping_file,
                                  SaveFault(st.dir, fault))
             ELSE st.mapping_file,
         dir      |-> st.dir,
         raised   |-> s.raised \/ add_raises,
         dropped  |-> s.dropped,
         saved    |-> appended /\ SaveFault(st.dir, fault) \notin SaveFaults,
         duplicates |-> s.duplicates,
         inserted |-> s.inserted,
         events   |-> s.events \o (IF appended THEN << "add", "save" >> ELSE << >>)]

----------------------------------------------------------------------------
(* VectorStore.delete_athlete_chunks *)

\* mutant of delete_many: the filter matches every document
delete_many_NoFilter(metadata, athlete_name) == {}

\* metadata_collection.delete_many({"athlete_name": athlete_name}): the
\* collection after the call
delete_many(metadata, athlete_name) ==
    { d \in metadata : d.athlete_name # athlete_name }

----------------------------------------------------------------------------
(* VectorStore.search_similar *)

\* search_k is top_k * OverFetchFactor when an athlete filter is given
OverFetchFactor == 10

\* the score FAISS reports next to the label -1 (no result)
NoResultScore == 0 - 1000

\* the best remaining position: highest inner product, lowest id on a tie
BestHit(vecs, q, remaining) ==
    CHOOSE i \in remaining :
        \A j \in remaining :
            \/ InnerProduct(q, vecs[i].vec) > InnerProduct(q, vecs[j].vec)
            \/ /\ InnerProduct(q, vecs[i].vec) = InnerProduct(q, vecs[j].vec)
               /\ i <= j

\* IndexFlatIP.search: k (id, score) pairs by descending score, padded with
\* the label -1 when fewer than k vectors are stored
RECURSIVE FaissSearch(_, _, _, _)
FaissSearch(vecs, q, remaining, k) ==
    IF k = 0 THEN << >>
    ELSE IF remaining = {}
    THEN << [id |-> 0 - 1, score |-> NoResultScore] >>
         \o FaissSearch(vecs, q, remaining, k - 1)
    ELSE LET b == BestHit(vecs, q, remaining) IN
         << [id |-> b - 1, score |-> InnerProduct(q, vecs[b].vec)] >>
         \o FaissSearch(vecs, q, remaining \ {b}, k - 1)

\* metadata_collection.find_one({"_id": ObjectId(metadata_id)})
FindById(metadata, metadata_id) == { d \in metadata : StrOid(d.id) = metadata_id }

\* the result loop of search_similar over the hits from position i on
RECURSIVE SimilarResults(_, _, _, _, _, _, _)
SimilarResults(hits, i, mapping, metadata, athlete_name, top_k, results) ==
    IF i > Len(hits) \/ Len(results) >= top_k THEN results
    ELSE LET hit == hits[i]
             skip == \/ hit.id = 0 - 1
                     \/ hit.id \notin DOMAIN mapping
                     \/ FindById(metadata, mapping[hit.id]) = {}
                     \/ /\ athlete_name # NoAthlete
                        /\ (CHOOSE d \in FindById(metadata, mapping[hit.id]) : TRUE)
                               .athlete_name # athlete_name
         IN  IF skip
             THEN SimilarResults(hits, i + 1, mapping, metadata, athlete_name,
                                 top_k, results)
             ELSE SimilarResults(hits, i + 1, mapping, metadata, athlete_name, top_k,
                      Append(results,
                          [chunk |-> CHOOSE d \in FindById(metadata, mapping[hit.id]) : TRUE,
                           similarity |-> hit.score,
                           faiss_id |-> hit.id]))

search_similar(vecs, mapping, metadata, query_embedding, athlete_name, top_k) ==
    IF Len(vecs) = 0 THEN << >>
    ELSE LET query_vec == normalize_L2(query_embedding)
             search_k == Min(IF athlete_name # NoAthlete
                             THEN top_k * OverFetchFactor ELSE top_k,
                             Len(vecs))
             hits == FaissSearch(vecs, query_vec, 1..Len(vecs), search_k)
         IN  SimilarResults(hits, 1, mapping, metadata, athlete_name, top_k, << >>)

\* query embeddings
Queries == { << 1, 0 >>, << 0, 2 >>, << 0, 0 - 1 >> }

\* mutant of search_similar_raises: the index is searched even when empty
search_similar_raises_NoEmptyCheck(vecs, query_embedding) ==
    Len(query_embedding) # Config.vector_dimension

\* index.search raises on a query of another dimension than the index
\* (reached only when the index holds vectors)
search_similar_raises(vecs, query_embedding) ==
    Len(vecs) # 0 /\ Len(query_embedding) # Config.vector_dimension

----------------------------------------------------------------------------
(* FAISSRetriever.retrieve *)

\* the dictionary retrieve appends for a Metadata Document; the text is
\* identified by the passage and the window it was cut from
RetrievedChunk(d, similarity) ==
    [text          |-> << d.source_doc_id, d.chunk_index >>,
     athlete_name  |-> d.athlete_name,
     similarity    |-> similarity,
     source_doc_id |-> d.source_doc_id]

\* mutant of RetrieveSkips: every Metadata Document passes the athlete filter
RetrieveSkips_NoFilter(hit, mapping, metadata, athlete_name, min_similarity) ==
    \/ hit.score < min_similarity
    \/ hit.id \notin DOMAIN mapping
    \/ FindById(metadata, mapping[hit.id]) = {}

\* the `continue` conditions of the result loop of retrieve
RetrieveSkips(hit, mapping, metadata, athlete_name, min_similarity) ==
    \/ hit.score < min_similarity
    \/ hit.id \notin DOMAIN mapping
    \/ FindById(metadata, mapping[hit.id]) = {}
    \/ /\ athlete_name # NoAthlete
       /\ (CHOOSE d \in FindById(metadata, mapping[hit.id]) : TRUE).athlete_name
          # athlete_name

\* mutant of RetrieveDone: the loop never stops early
RetrieveDone_NoBreak(results, top_k) == FALSE

\* `if len(results) >= top_k: break`
RetrieveDone(results, top_k) == Len(results) >= top_k

\* the result loop of retrieve over the hits from position i on
RECURSIVE RetrieveResults(_, _, _, _, _, _, _, _)
RetrieveResults(hits, i, mapping, metadata, athlete_name, top_k, min_similarity, results) ==
    IF i > Len(hits) \/ RetrieveDone(results, top_k) THEN results
    ELSE IF RetrieveSkips(hits[i], mapping, metadata, athlete_name, min_similarity)
    THEN RetrieveResults(hits, i + 1, mapping, metadata, athlete_name, top_k,
                         min_similarity, results)
    ELSE RetrieveResults(hits, i + 1, mapping, metadata, athlete_name, top_k,
             min_similarity,
             Append(results,
                 RetrievedChunk(CHOOSE d \in FindById(metadata, mapping[hits[i].id]) : TRUE,
                                hits[i].score)))

\* search_k of retrieve: not capped at the number of stored vectors
RetrieveSearchK(athlete_name, top_k) ==
    IF athlete_name # NoAthlete THEN top_k * OverFetchFactor ELSE top_k

\* the candidates retrieve gets from the index
RetrieveHits(vecs, query_embedding, athlete_name, top_k) ==
    FaissSearch(vecs, normalize_L2(query_embedding), 1..Len(vecs),
                RetrieveSearchK(athlete_name, top_k))

\* retrieve on the loaded vectors and mapping and the live Metadata Store;
\* query_embedding is the encoding of the query
retrieve(vecs, mapping, metadata, query_embedding, athlete_name, top_k, min_similarity) ==
    RetrieveResults(RetrieveHits(vecs, query_embedding, athlete_name, top_k), 1,
                    mapping, metadata, athlete_name, top_k, min_similarity, << >>)

\* min_similarity arguments (the default is 0)
MinSimilarities == { 0 - 2000, 0, 1 }

----------------------------------------------------------------------------
(* AthleteIndexingPipeline.process_athlete_indexing *)

\* the outcome of an operation that did not reach index_chunks
Untouched(st, raised) ==
    [index |-> st.index, mapping |-> st.mapping, next_id |-> st.next_id,
     metadata |-> st.metadata, next_oid |-> st.next_oid,
     index_file |-> st.index_file, mapping_file |-> st.mapping_file,
     dir |-> st.dir,
     raised |-> raised, dropped |-> FALSE, saved |-> FALSE, duplicates |-> 0,
     inserted |-> 0, events |-> << >>]

\* the wall-clock seconds of a run that got past the fetch stage
Elapsed == 1

\* the statistics dictionary a run returns
Stats(athlete_name, documents_loaded, chunks_created, chunks_indexed, duration_seconds, status) ==
    [athlete_name     |-> athlete_name,
     documents_loaded |-> documents_loaded,
     chunks_created   |-> chunks_created,
     chunks_indexed   |-> chunks_indexed,
     duration_seconds |-> duration_seconds,
     status           |-> status]

\* nothing is returned by a run an exception escapes from
NoStats == << >>

\* str(e) of the exception a fault raises
ErrorMessage(fault) == fault.kind

\* one run on the store state st: the new store state, the final status
\* ("error": an exception escapes the run), the returned statistics and
\* the message of the escaping exception
process_athlete_indexing(st, athlete_name, skip_indexed, fault) ==
    LET documents == fetch_documents(st.metadata, athlete_name, skip_indexed)
        chunks == split_documents(documents)
        r == index_chunks(st, embed_chunks(chunks), TRUE, fault)
        failed(res) == [res |-> res, status |-> "error", stats |-> NoStats,
                        error |-> ErrorMessage(fault)]
    IN  IF fault.kind = "fetch"
        THEN failed(Untouched(st, TRUE))
        ELSE IF documents = << >>
        THEN [res |-> Untouched(st, FALSE), status |-> "no_new_documents",
              stats |-> Stats(athlete_name, 0, 0, 0, 0, "no_new_documents"),
              error |-> ""]
        ELSE IF chunks = << >>
        THEN [res |-> Untouched(st, FALSE), status |-> "no_chunks_created",
              stats |-> Stats(athlete_name, Len(documents), 0, 0, Elapsed,
                              "no_chunks_created"),
              error |-> ""]
        ELSE IF fault.kind = "encode"
        THEN failed(Untouched(st, TRUE))
        ELSE IF r.raised
        THEN failed(r)
        ELSE [res |-> r, status |-> "success",
              stats |-> Stats(athlete_name, Len(documents), Len(chunks),
                              r.inserted, Elapsed, "success"),
              error |-> ""]

\* the entry process_all_athletes records for a run that raised
ErrorEntry(athlete_name, message) ==
    [athlete_name |-> athlete_name, status |-> "error", error |-> message]

\* mutant of BatchEntry: a run that raised leaves no entry
BatchEntry_DropsFailed(athlete_name, run) ==
    IF run.status = "error" THEN << >> ELSE << run.stats >>

\* what one iteration of the loop of process_all_athletes appends to results
BatchEntry(athlete_name, run) ==
    IF run.status = "error"
    THEN << ErrorEntry(athlete_name, run.error) >>
    ELSE << run.stats >>

\* process_all_athletes: the loop over athlete_names from the store state
\* st on, faults[k] being the fault the k-th run meets; every run is made
\* with skip_indexed left at its default
RECURSIVE process_all_athletes(_, _, _, _)
process_all_athletes(st, athlete_names, faults, results) ==
    IF athlete_names = << >>
    THEN [res |-> st, results |-> results]
    ELSE LET run == process_athlete_indexing(st, Head(athlete_names), TRUE,
                                             Head(faults))
         IN  process_all_athletes(run.res, Tail(athlete_names), Tail(faults),
                                  results \o BatchEntry(Head(athlete_names), run))

----------------------------------------------------------------------------
(* utils.format_score *)

\* a score: None, or a number given in thousandths
None == [none |-> TRUE, milli |-> 0]

Number(milli) == [none |-> FALSE, milli |-> milli]

Abs(x) == IF x < 0 THEN 0 - x ELSE x

\* the truth value of the argument in `if score`: None and zero are falsy
Truthy(score) == ~score.none /\ score.milli # 0

\* f"{score:.2f}": the sign, the integer part, the point and two decimals
\* of the value rounded to the nearest hundredth
TwoDecimals(milli) ==
    LET h == (Abs(milli) + 5) \div 10
        frac == h % 100
    IN  (IF milli < 0 THEN "-" ELSE "") \o ToString(h \div 100) \o "."
        \o (IF frac < 10 THEN "0" ELSE "") \o ToString(frac)

format_score(score) ==
    IF Truthy(score) THEN TwoDecimals(score.milli) ELSE "N/A"

\* the scores format_score is called with: None, the score of the test
\* (123.456) and every thousandth up to MaxMilli that is not half-way
\* between two hundredths
Scores ==
    {None, Number(123456)}
    \cup { Number(m) : m \in { x \in (0 - MaxMilli)..MaxMilli : Abs(x) % 10 # 5 } }

----------------------------------------------------------------------------
(* TextChunker, one loop iteration at a time *)

\* TextChunker(chunk_size, chunk_overlap): __init__ stores both as given
NewChunker(chunk_size, chunk_overlap) ==
    [chunk_size |-> chunk_size, chunk_overlap |-> chunk_overlap, pc |-> "idle",
     blank |-> FALSE, total_tokens |-> 0, start |-> 0, chunk_index |-> 0,
     chunks |-> << >>]

\* the position a slice bound denotes in a list of n items
SliceBound(n, i) == IF i < 0 THEN (IF i + n < 0 THEN 0 ELSE i + n) ELSE Min(i, n)

\* len(tokens[start:end]) for a list of n tokens
SliceLen(n, start, end) ==
    IF SliceBound(n, end) > SliceBound(n, start)
    THEN SliceBound(n, end) - SliceBound(n, start) ELSE 0

\* mutant of WindowChunk: the window is not cut off at the end of the text
WindowChunk_NoClamp(c) ==
    [chunk_index |-> c.chunk_index, start |-> c.start, token_count |-> c.chunk_size]

\* the TextChunk appended by one iteration of the while loop
WindowChunk(c) ==
    LET end == Min(c.start + c.chunk_size, c.total_tokens) IN
    [chunk_index |-> c.chunk_index, start |-> c.start,
     token_count |-> SliceLen(c.total_tokens, c.start, end)]

\* mutant of NextStart: the window moves on by chunk_size
NextStart_NoOverlap(c) == c.start + c.chunk_size

\* start += self.chunk_size - self.chunk_overlap
NextStart(c) == c.start + c.chunk_size - c.chunk_overlap

\* the arguments TextChunker is constructed with (no check in __init__)
ChunkSizes == 0..MaxChunkSize

ChunkOverlaps == 0..MaxChunkSize

----------------------------------------------------------------------------
(* Concurrent writers *)

Writers == {1, 2}

\* a VectorStore that has not been constructed; pc is the position of the
\* instance in _load_index: index_exists and mapping_exists (before the two
\* exists() tests), read_index (before faiss.read_index), load_mapping
\* (before open and pickle.load); ready once constructed and in no call; in
\* index_chunks: find (before the duplicate lookup of chunks[i]), insert
\* (before insert_one of chunks[i]), add (after the loop); in _save_index:
\* write_index (before faiss.write_index), open_mapping (before open of the
\* mapping file), dump_mapping (before pickle.dump)
NoWriter ==
    [pc |-> "none", index |-> << >>, mapping |-> EmptyMapping, next_id |-> 0,
     chunks |-> << >>, i |-> 0, to_add |-> << >>]

\* the loop of index_chunks goes on to the next chunk, or leaves the loop
NextChunk(wr) ==
    IF wr.i = Len(wr.chunks)
    THEN [wr EXCEPT !.pc = "add"]
    ELSE [wr EXCEPT !.pc = "find", !.i = @ + 1]

----------------------------------------------------------------------------
(* process_athlete_indexing, one stage at a time *)

\* a pipeline that is not in a run; pc is the stage the run is about to
\* execute (fetch, chunk, embed, index), or done once it returned or raised
NoRun ==
    [pc |-> "idle", athlete_name |-> NoAthlete, skip_indexed |-> TRUE,
     documents |-> << >>, chunks |-> << >>, enriched_chunks |-> << >>,
     stages |-> << >>, raised |-> FALSE, status |-> "", indexed_count |-> 0]

\* mutant of NextStage: the chunks go to the index without being embedded
NextStage_SkipsEmbed(stage) ==
    CASE stage = "fetch" -> "chunk"
      [] stage = "chunk" -> "index"
      [] stage = "embed" -> "index"
      [] OTHER           -> "done"

\* the statement that follows a stage that returned something to work on
NextStage(stage) ==
    CASE stage = "fetch" -> "chunk"
      [] stage = "chunk" -> "embed"
      [] stage = "embed" -> "index"
      [] OTHER           -> "done"

\* the run has entered a stage
Entered(rn, stage) == [rn EXCEPT !.stages = Append(@, stage)]

\* the run returns a statistics dictionary with the given status
Returns(rn, status) == [rn EXCEPT !.pc = "done", !.status = status]

\* an exception escapes the run
Raises(rn) == [rn EXCEPT !.pc = "done", !.status = "error", !.raised = TRUE]

----------------------------------------------------------------------------
(* A VectorStore of any embedding_dimension *)

\* the values embedding_dimension is given
Dimensions == 1..MaxDimension

\* no VectorStore constructed and no index files: embedding_dimension is
\* the configured dimension (0: no instance), d and ntotal are index.d and
\* index.ntotal, docs counts the Metadata Documents, file_d and file_ntotal
\* are d and ntotal of the index in faiss.index (file_d = 0: no files),
\* status is the outcome of the last call
NoDimStore ==
    [embedding_dimension |-> 0, d |-> 0, ntotal |-> 0, docs |-> 0,
     file_d |-> 0, file_ntotal |-> 0, status |-> "none"]

\* __init__ and _load_index: IndexFlatIP(embedding_dimension), replaced by
\* the index read from the files when they exist
DimLoad(ds, embedding_dimension) ==
    IF ds.file_d # 0
    THEN [ds EXCEPT !.embedding_dimension = embedding_dimension,
                    !.d = ds.file_d, !.ntotal = ds.file_ntotal,
                    !.status = "loaded"]
    ELSE [ds EXCEPT !.embedding_dimension = embedding_dimension,
                    !.d = embedding_dimension, !.ntotal = 0,
                    !.status = "fresh"]

\* _save_index: the index as it is goes to the files
DimSave(ds) == [ds EXCEPT !.file_d = ds.d, !.file_ntotal = ds.ntotal]

\* index_chunks on n new chunks whose embeddings have length len: the
\* length is compared with embedding_dimension, the Metadata Documents are
\* inserted, and index.add raises when the length is not index.d
DimIndex(ds, n, len) ==
    IF len # ds.embedding_dimension
    THEN [ds EXCEPT !.status = "rejected"]
    ELSE IF len # ds.d
    THEN [ds EXCEPT !.docs = @ + n, !.status = "raised"]
    ELSE DimSave([ds EXCEPT !.docs = @ + n, !.ntotal = @ + n, !.status = "indexed"])

----------------------------------------------------------------------------
(* retrieve with an athlete filter on an index of many chunks *)

\* the query embedding, and the chunks of the two athletes: those of B are
\* equal to the query (score 1), those of A orthogonal to it (score 0)
ProbeQuery == << 1, 0 >>

OtherChunk(i) ==
    [source_doc_id |-> "o_0", athlete_name |-> "B", chunk_index |-> i,
     token_count |-> 1, embedding |-> << 1, 0 >>]

OwnChunk(i) ==
    [source_doc_id |-> "e_0", athlete_name |-> "A", chunk_index |-> i,
     token_count |-> 1, embedding |-> << 0, 1 >>]

\* a store nothing was indexed in
EmptyStore ==
    [index |-> << >>, mapping |-> EmptyMapping, next_id |-> 0, metadata |-> {},
     next_oid |-> 0, index_file |-> AbsentIndexFile,
     mapping_file |-> AbsentMappingFile, dir |-> TRUE]

\* the store after index_chunks on n_others chunks of B and n_own chunks of A
Corpus(n_others, n_own) ==
    index_chunks(EmptyStore,
                 [i \in 1..n_others |-> OtherChunk(i - 1)]
                 \o [i \in 1..n_own |-> OwnChunk(i - 1)],
                 TRUE, NoFault)

\* FAISSRetriever on the files of that store: the constructor raises when
\* _load_faiss_index finds no index files (nothing was indexed, so nothing
\* was saved) and retrieve is never called; else retrieve(query, "A",
\* top_k) with min_similarity left at its default
ProbeResults(n_others, n_own, top_k) ==
    LET c == Corpus(n_others, n_own)
        loaded == LoadFaissIndex(c.index_file, c.mapping_file)
    IN  IF loaded.status = "raised"
        THEN [status |-> "raised", results |-> << >>]
        ELSE [status |-> "returned",
              results |-> retrieve(loaded.index, loaded.mapping, c.metadata,
                                   ProbeQuery, "A", top_k, 0)]

\* no retriever was constructed yet; status is the outcome of the
\* construction and the call: raised or returned
NoProbe == [called |-> FALSE, others |-> 0, own |-> 0, top_k |-> 0, status |-> "none", results |-> << >>]

----------------------------------------------------------------------------
(* State and inputs *)

\* the store state the operations work on
Store ==
    [index |-> index, mapping |-> faiss_id_to_metadata_id,
     next_id |-> next_faiss_id, metadata |-> metadata_collection,
     next_oid |-> next_oid, index_file |-> index_file,
     mapping_file |-> mapping_file, dir |-> index_dir]

\* the chunks the pipeline can produce from the source documents
RECURSIVE Range(_)
Range(seq) == IF seq = << >> THEN {} ELSE {Head(seq)} \cup Range(Tail(seq))

PipelineChunks ==
    Range(embed_chunks(split_documents(
        ProcessedDocuments(source_collection, "A")
        \o ProcessedDocuments(source_collection, "B"))))

\* the valid chunks of direct index_chunks calls: the first chunk of athlete A
DirectChunks ==
    { c \in PipelineChunks : c.athlete_name = "A" /\ c.chunk_index = 0 }

\* a chunk whose embedding has the wrong dimension
InvalidChunk ==
    [source_doc_id |-> "x_0", athlete_name |-> "A", chunk_index |-> 0,
     token_count |-> 1, embedding |-> << 1, 0, 0 >>]

\* the batches of a direct index_chunks call: up to MaxBatch chunks, all
\* valid or the first one invalid
Batches ==
    LET valid == UNION { [1..n -> DirectChunks] : n \in 0..MaxBatch } IN
    valid \cup { << InvalidChunk >> \o b : b \in { v \in valid : Len(v) < MaxBatch } }

\* the athlete lists of a process_all_athletes call
NameLists == UNION { [1..n -> Athletes] : n \in 0..MaxNames }

\* the chunks of the longest batch a pipeline run indexes
MaxRunChunks ==
    CHOOSE n \in 0..Cardinality(PipelineChunks) :
        /\ \A a \in Athletes :
               Len(split_documents(ProcessedDocuments(source_collection, a))) <= n
        /\ \E a \in Athletes :
               Len(split_documents(ProcessedDocuments(source_collection, a))) = n

\* the faults the runs of a batch meet: at most one run meets a fault
BatchFaults(n, file_faults) ==
    { [k \in 1..n |-> NoFault] }
    \cup { [k \in 1..n |-> IF k = at THEN f ELSE NoFault] :
             at \in 1..n, f \in RunFaults(MaxRunChunks, file_faults) \ {NoFault} }

\* the batches the pipelines of the writers index: the chunks of one athlete
PipelineBatches ==
    { embed_chunks(split_documents(ProcessedDocuments(source_collection, a))) :
        a \in Athletes }

\* a chunk with an all-zero embedding of the right dimension
ZeroChunk ==
    [source_doc_id |-> "z_0", athlete_name |-> "A", chunk_index |-> 0,
     token_count |-> 1, embedding |-> << 0, 0 >>]

\* the one-chunk batches a searched index is built from
SearchBatches == { << c >> : c \in PipelineChunks }

\* the same, and a chunk with a zero embedding
EmbeddingBatches == SearchBatches \cup { << ZeroChunk >> }

NoOp == [op |-> "init", athlete |-> NoAthlete, skip |-> TRUE, status |-> "ok",
         dropped |-> FALSE, saved |-> FALSE, inserted |-> 0, duplicates |-> 0,
         repeat |-> "no", requested |-> << >>, returned |-> << >>]

Init ==
    /\ index = << >>
    /\ faiss_id_to_metadata_id = EmptyMapping
    /\ next_faiss_id = 0
    /\ metadata_collection = {}
    /\ next_oid = 0
    /\ index_file = AbsentIndexFile
    /\ mapping_file = AbsentMappingFile
    /\ index_dir = TRUE
    /\ retriever = [status |-> "none", index |-> << >>, mapping |-> EmptyMapping]
    /\ last = NoOp
    /\ chunker = NewChunker(Config.chunk_size, Config.chunk_overlap)
    /\ writers = [w \in Writers |-> NoWriter]
    /\ formatted = [called |-> FALSE, score |-> None, text |-> ""]
    /\ staged = NoRun
    /\ dim_store = NoDimStore
    /\ probe = NoProbe

\* the store variables take the values of an operation's result (no
\* operation of an instance creates or removes the index directory)
Commit(r) ==
    /\ index' = r.index
    /\ faiss_id_to_metadata_id' = r.mapping
    /\ next_faiss_id' = r.next_id
    /\ metadata_collection' = r.metadata
    /\ next_oid' = r.next_oid
    /\ index_file' = r.index_file
    /\ mapping_file' = r.mapping_file
    /\ index_dir' = r.dir

----------------------------------------------------------------------------
(* Actions: one per public operation *)

\* VectorStore(...): a new instance on the same index path and database;
\* __init__ creates the index directory when it is missing
Construct ==
    LET loaded == LoadIndex(index_file, mapping_file) IN
    /\ index_dir' = TRUE
    /\ index' = loaded.index
    /\ faiss_id_to_metadata_id' = loaded.mapping
    /\ next_faiss_id' = loaded.next_id
    /\ last' = [NoOp EXCEPT !.op = "construct"]
    /\ UNCHANGED <<metadata_collection, next_oid, index_file, mapping_file, retriever>>
    /\ UNCHANGED others

\* VectorStore.index_chunks(chunks, skip_duplicates) on a batch of batches,
\* exposed to the faults of the given kinds
IndexChunksFrom(batches, skip_duplicates, fault_kinds) ==
    \E chunks \in batches :
    \E fault \in { f \in CallFaults(Len(chunks), FALSE) \cup CallFaults(Len(chunks), TRUE) :
                     f.kind \in fault_kinds \cup {"none"} } :
        LET r == index_chunks(Store, chunks, skip_duplicates, fault) IN
        /\ r.next_oid <= MaxOid
        /\ Commit(r)
        /\ last' = [NoOp EXCEPT !.op = "index_chunks",
                                !.status = IF r.raised THEN "error" ELSE "ok",
                                !.saved = r.saved, !.inserted = r.inserted,
                                !.duplicates = r.duplicates]
        /\ UNCHANGED <<retriever, others>>

IndexChunks(skip_duplicates, file_faults) ==
    IndexChunksFrom(Batches, skip_duplicates,
                    { f.kind : f \in CallFaults(MaxBatch, file_faults) })

\* AthleteIndexingPipeline.process_athlete_indexing(athlete_name, skip_indexed)
ProcessAthleteIndexing(file_faults) ==
    \E athlete_name \in Athletes, skip_indexed \in BOOLEAN :
    \E fault \in RunFaults(
                 Len(split_documents(fetch_documents(metadata_collection,
                                                     athlete_name, skip_indexed))),
                 file_faults) :
        LET run == process_athlete_indexing(Store, athlete_name, skip_indexed, fault)
            r == run.res
        IN  /\ r.next_oid <= MaxOid
            /\ Commit(r)
            /\ last' = [op |-> "process", athlete |-> athlete_name,
                        skip |-> skip_indexed, status |-> run.status,
                        dropped |-> r.dropped, saved |-> r.saved,
                        inserted |-> r.inserted, duplicates |-> r.duplicates,
                        repeat |-> IF /\ last.op = "process"
                                      /\ last.athlete = athlete_name
                                      /\ last.skip /\ skip_indexed
                                      /\ last.status # "error"
                                   THEN IF last.dropped THEN "run" ELSE "clean"
                                   ELSE "no",
                        requested |-> << athlete_name >>,
                        returned |-> IF run.status = "error" THEN << >>
                                     ELSE << run.stats >>]
            /\ UNCHANGED <<retriever, others>>

\* process_athlete_indexing(athlete_name, skip_indexed) is called (a run
\* that would take the Metadata Store past MaxOid documents is not started)
RunCall ==
    \E athlete_name \in Athletes, skip_indexed \in BOOLEAN :
        /\ staged.pc \in {"idle", "done"}
        /\ next_oid + Len(split_documents(fetch_documents(metadata_collection,
                                                          athlete_name, skip_indexed)))
           <= MaxOid
        /\ staged' = [NoRun EXCEPT !.pc = "fetch", !.athlete_name = athlete_name,
                                !.skip_indexed = skip_indexed]
        /\ UNCHANGED <<engine, chunker, writers, formatted, dim_store, probe>>

\* step 1: fetch_documents; no documents ends the run
RunFetch ==
    \E fault \in {NoFault} \cup { f \in StageFaults : f.kind = "fetch" } :
        LET rn == Entered(staged, "fetch")
            documents == fetch_documents(metadata_collection, staged.athlete_name,
                                         staged.skip_indexed)
        IN  /\ staged.pc = "fetch"
            /\ staged' = IF fault # NoFault THEN Raises(rn)
                      ELSE IF documents = << >> THEN Returns(rn, "no_new_documents")
                      ELSE [rn EXCEPT !.pc = NextStage("fetch"),
                                      !.documents = documents]
            /\ UNCHANGED <<engine, chunker, writers, formatted, dim_store, probe>>

\* step 2: split_into_chunks; no chunks ends the run
RunChunk ==
    LET rn == Entered(staged, "chunk")
        chunks == split_documents(staged.documents)
    IN  /\ staged.pc = "chunk"
        /\ staged' = IF chunks = << >> THEN Returns(rn, "no_chunks_created")
                  ELSE [rn EXCEPT !.pc = NextStage("chunk"), !.chunks = chunks]
        /\ UNCHANGED <<engine, chunker, writers, formatted, dim_store, probe>>

\* step 3: embed_chunks
RunEmbed ==
    \E fault \in {NoFault} \cup { f \in StageFaults : f.kind = "encode" } :
        LET rn == Entered(staged, "embed") IN
        /\ staged.pc = "embed"
        /\ staged' = IF fault # NoFault THEN Raises(rn)
                  ELSE [rn EXCEPT !.pc = NextStage("embed"),
                                  !.enriched_chunks = embed_chunks(staged.chunks)]
        /\ UNCHANGED <<engine, chunker, writers, formatted, dim_store, probe>>

\* step 4: index_chunks, and the return of the statistics
RunIndex ==
    \E fault \in CallFaults(Len(staged.enriched_chunks), FALSE) :
        LET rn == Entered(staged, "index")
            r == index_chunks(Store, staged.enriched_chunks, TRUE, fault)
        IN  /\ staged.pc = "index"
            /\ Commit(r)
            /\ staged' = IF r.raised THEN Raises(rn)
                      ELSE [Returns(rn, "success") EXCEPT !.indexed_count = r.inserted]
            /\ UNCHANGED <<retriever, last, chunker, writers, formatted,
                           dim_store, probe>>

\* VectorStore(..., embedding_dimension) on the index path
DimConstruct ==
    \E embedding_dimension \in Dimensions :
        /\ dim_store' = DimLoad(dim_store, embedding_dimension)
        /\ UNCHANGED <<engine, chunker, writers, formatted, staged, probe>>

\* index_chunks(chunks) on a batch of new chunks with embeddings of one length
DimIndexChunks ==
    \E n \in 1..MaxBatch, len \in Dimensions :
        /\ dim_store.embedding_dimension # 0
        /\ dim_store.docs + n <= MaxOid
        /\ dim_store' = DimIndex(dim_store, n, len)
        /\ UNCHANGED <<engine, chunker, writers, formatted, staged, probe>>

\* rebuild_index(): IndexFlatIP(self.embedding_dimension), then _save_index
DimRebuildIndex ==
    /\ dim_store.embedding_dimension # 0
    /\ dim_store' = DimSave([dim_store EXCEPT !.d = dim_store.embedding_dimension,
                                              !.ntotal = 0, !.status = "rebuilt"])
    /\ UNCHANGED <<engine, chunker, writers, formatted, staged, probe>>

\* close(): _save_index
DimClose ==
    /\ dim_store.embedding_dimension # 0
    /\ dim_store' = DimSave([dim_store EXCEPT !.status = "closed"])
    /\ UNCHANGED <<engine, chunker, writers, formatted, staged, probe>>

\* FAISSRetriever(...) and retrieve(query, athlete_name="A", top_k) on the
\* index files of n_others chunks of B and n_own chunks of A
ProbeRetrieve ==
    \E n_others \in 0..MaxOthers, n_own \in 0..MaxOwn, top_k \in 1..MaxK :
        LET r == ProbeResults(n_others, n_own, top_k) IN
        /\ probe' = [called |-> TRUE, others |-> n_others, own |-> n_own,
                     top_k |-> top_k, status |-> r.status,
                     results |-> r.results]
        /\ UNCHANGED <<engine, chunker, writers, formatted, staged, dim_store>>

\* AthleteIndexingPipeline.process_all_athletes(athlete_names)
ProcessAllAthletes(file_faults) ==
    \E athlete_names \in NameLists :
    \E faults \in BatchFaults(Len(athlete_names), file_faults) :
        LET batch == process_all_athletes(Untouched(Store, FALSE), athlete_names,
                                          faults, << >>)
        IN  /\ batch.res.next_oid <= MaxOid
            /\ Commit(batch.res)
            /\ last' = [NoOp EXCEPT !.op = "process_all",
                                    !.requested = athlete_names,
                                    !.returned = batch.results]
            /\ UNCHANGED <<retriever, others>>

\* VectorStore.delete_athlete_chunks(athlete_name): metadata only
DeleteAthleteChunks ==
    \E athlete_name \in Athletes :
        /\ metadata_collection' = delete_many(metadata_collection, athlete_name)
        /\ last' = [NoOp EXCEPT !.op = "delete", !.athlete = athlete_name]
        /\ UNCHANGED <<index, faiss_id_to_metadata_id, next_faiss_id, next_oid,
                       index_file, mapping_file, index_dir, retriever, others>>

\* VectorStore.rebuild_index(): a new empty index, then find() on the
\* Metadata Store and _save_index in either branch (re-adding the
\* embeddings is not implemented); find() raising leaves the call before
\* _save_index
RebuildIndex(fault_kinds) ==
    \E fault \in OfKinds(RebuildFaults, fault_kinds) :
        LET save == SaveFault(index_dir, fault) IN
        /\ index' = << >>
        /\ faiss_id_to_metadata_id' = EmptyMapping
        /\ next_faiss_id' = 0
        /\ index_file' = IF fault.kind = "find" THEN index_file
                          ELSE SaveIndexFile(<< >>, index_file, save)
        /\ mapping_file' = IF fault.kind = "find" THEN mapping_file
                            ELSE SaveMappingFile(EmptyMapping, 0, mapping_file, save)
        /\ last' = [NoOp EXCEPT !.op = "rebuild",
                                !.status = IF fault.kind = "find" THEN "error" ELSE "ok",
                                !.saved = (save = NoFault)]
        /\ UNCHANGED <<metadata_collection, next_oid, index_dir, retriever, others>>

\* VectorStore.close(): _save_index
Close(fault_kinds) ==
    \E fault \in OfKinds(CloseFaults, fault_kinds) :
        LET save == SaveFault(index_dir, fault) IN
        /\ index_file' = SaveIndexFile(index, index_file, save)
        /\ mapping_file' = SaveMappingFile(faiss_id_to_metadata_id, next_faiss_id,
                                           mapping_file, save)
        /\ last' = [NoOp EXCEPT !.op = "close", !.saved = (save = NoFault)]
        /\ UNCHANGED <<index, faiss_id_to_metadata_id, next_faiss_id,
                       metadata_collection, next_oid, index_dir, retriever, others>>

\* cli.clear_index: shutil.rmtree(index_path) removes the index directory
\* with both files, delete_many({}) empties the Metadata Store; the command
\* runs in a process of its own, an open VectorStore keeps what it holds in
\* memory
ClearIndex(fault_kinds) ==
    \E fault \in OfKinds(ClearFaults, fault_kinds) :
        /\ index_dir' = IF fault.kind = "rmtree" THEN index_dir ELSE FALSE
        /\ index_file' = IF fault.kind = "rmtree" THEN index_file ELSE AbsentIndexFile
        /\ mapping_file' = IF fault.kind = "rmtree" THEN mapping_file
                            ELSE AbsentMappingFile
        /\ metadata_collection' = IF fault.kind = "delete_all" THEN metadata_collection
                                   ELSE {}
        /\ last' = [NoOp EXCEPT !.op = "clear"]
        /\ UNCHANGED <<index, faiss_id_to_metadata_id, next_faiss_id, next_oid,
                       retriever, others>>

\* FAISSRetriever(...): _load_faiss_index on the index path
RetrieverConstruct ==
    /\ retriever' = LoadFaissIndex(index_file, mapping_file)
    /\ last' = [NoOp EXCEPT !.op = "retriever_construct"]
    /\ UNCHANGED <<index, faiss_id_to_metadata_id, next_faiss_id,
                   metadata_collection, next_oid, index_file, mapping_file,
                   index_dir, others>>

\* VectorStore(...) by writer w: __init__ up to the call of _load_index
WriterConstruct(w) ==
    /\ writers[w].pc = "none"
    /\ writers' = [writers EXCEPT ![w] = [NoWriter EXCEPT !.pc = "index_exists"]]
    /\ index_dir' = TRUE
    /\ UNCHANGED <<index, faiss_id_to_metadata_id, next_faiss_id,
                   metadata_collection, next_oid, index_file, mapping_file,
                   retriever, last, chunker, formatted, scenarios>>

\* _load_index: index_file.exists()
WriterIndexExists(w) ==
    /\ writers[w].pc = "index_exists"
    /\ writers' = [writers EXCEPT
                     ![w].pc = IF index_file.st # "absent" THEN "mapping_exists"
                               ELSE "ready"]
    /\ UNCHANGED <<engine, chunker, formatted, scenarios>>

\* _load_index: mapping_file.exists()
WriterMappingExists(w) ==
    /\ writers[w].pc = "mapping_exists"
    /\ writers' = [writers EXCEPT
                     ![w].pc = IF mapping_file.st # "absent" THEN "read_index"
                               ELSE "ready"]
    /\ UNCHANGED <<engine, chunker, formatted, scenarios>>

\* _load_index: faiss.read_index; an exception leaves a fresh instance
WriterReadIndex(w) ==
    /\ writers[w].pc = "read_index"
    /\ writers' = [writers EXCEPT
                     ![w] = IF index_file.st = "ok"
                            THEN [@ EXCEPT !.pc = "load_mapping",
                                           !.index = index_file.vecs]
                            ELSE [NoWriter EXCEPT !.pc = "ready"]]
    /\ UNCHANGED <<engine, chunker, formatted, scenarios>>

\* _load_index: open and pickle.load of the mapping file; an exception
\* leaves a fresh instance
WriterLoadMapping(w) ==
    /\ writers[w].pc = "load_mapping"
    /\ writers' = [writers EXCEPT
                     ![w] = IF mapping_file.st = "ok"
                            THEN [@ EXCEPT !.pc = "ready",
                                           !.mapping = mapping_file.mapping,
                                           !.next_id = mapping_file.next_id]
                            ELSE [NoWriter EXCEPT !.pc = "ready"]]
    /\ UNCHANGED <<engine, chunker, formatted, scenarios>>

\* writer w calls index_chunks(chunks) and reaches the loop
WriterIndexChunks(w) ==
    \E chunks \in PipelineBatches :
        /\ writers[w].pc = "ready"
        /\ writers' = [writers EXCEPT
                         ![w] = [@ EXCEPT !.pc = "find", !.chunks = chunks,
                                          !.i = 1, !.to_add = << >>]]
        /\ UNCHANGED <<engine, chunker, formatted, scenarios>>

\* the duplicate lookup and the embedding check of chunks[i]
WriterFindOne(w) ==
    LET wr == writers[w]
        chunk == wr.chunks[wr.i]
    IN  /\ wr.pc = "find"
        /\ writers' = [writers EXCEPT
                         ![w] = IF \/ FindDuplicate(metadata_collection, chunk)
                                   \/ InvalidEmbedding(chunk.embedding)
                                THEN NextChunk(wr)
                                ELSE [wr EXCEPT !.pc = "insert"]]
        /\ UNCHANGED <<engine, chunker, formatted, scenarios>>

\* insert_one of chunks[i] and the bookkeeping behind it
WriterInsertOne(w) ==
    LET wr == writers[w]
        chunk == wr.chunks[wr.i]
    IN  /\ wr.pc = "insert"
        /\ next_oid < MaxWriterDocs
        /\ metadata_collection' =
               metadata_collection \cup {MetadataDoc(chunk, wr.next_id, next_oid)}
        /\ next_oid' = next_oid + 1
        /\ writers' = [writers EXCEPT
                         ![w] = NextChunk(
                                  [wr EXCEPT
                                     !.to_add = Append(@, [vec |-> normalize_L2(chunk.embedding),
                                                           oid |-> next_oid]),
                                     !.mapping = DictSet(@, wr.next_id, StrOid(next_oid)),
                                     !.next_id = @ + 1])]
        /\ UNCHANGED <<index, faiss_id_to_metadata_id, next_faiss_id, index_file,
                       mapping_file, index_dir, retriever, last, chunker,
                       formatted, scenarios>>

\* behind the loop: index.add of the batch, or the return when there is
\* nothing to add
WriterAdd(w) ==
    LET wr == writers[w] IN
    /\ wr.pc = "add"
    /\ writers' = [writers EXCEPT
                     ![w] = IF wr.to_add # << >>
                            THEN [wr EXCEPT !.pc = "write_index",
                                            !.index = IndexAdd(wr.index, wr.to_add)]
                            ELSE [wr EXCEPT !.pc = "ready", !.chunks = << >>,
                                            !.i = 0]]
    /\ UNCHANGED <<engine, chunker, formatted, scenarios>>

\* _save_index: faiss.write_index
WriterWriteIndex(w) ==
    /\ writers[w].pc = "write_index"
    /\ index_file' = WriteIndex(writers[w].index)
    /\ writers' = [writers EXCEPT ![w].pc = "open_mapping"]
    /\ UNCHANGED <<index, faiss_id_to_metadata_id, next_faiss_id,
                   metadata_collection, next_oid, mapping_file, index_dir,
                   retriever, last, chunker, formatted, scenarios>>

\* _save_index: open(mapping_file, 'wb') truncates the file
WriterOpenMapping(w) ==
    /\ writers[w].pc = "open_mapping"
    /\ mapping_file' = CorruptMappingFile
    /\ writers' = [writers EXCEPT ![w].pc = "dump_mapping"]
    /\ UNCHANGED <<index, faiss_id_to_metadata_id, next_faiss_id,
                   metadata_collection, next_oid, index_file, index_dir,
                   retriever, last, chunker, formatted, scenarios>>

\* _save_index: pickle.dump, and the return of index_chunks
WriterDumpMapping(w) ==
    LET wr == writers[w] IN
    /\ wr.pc = "dump_mapping"
    /\ mapping_file' = DumpMapping(wr.mapping, wr.next_id)
    /\ writers' = [writers EXCEPT
                     ![w] = [wr EXCEPT !.pc = "ready", !.chunks = << >>, !.i = 0,
                                       !.to_add = << >>]]
    /\ UNCHANGED <<index, faiss_id_to_metadata_id, next_faiss_id,
                   metadata_collection, next_oid, index_file, index_dir,
                   retriever, last, chunker, formatted, scenarios>>

\* TextChunker(chunk_size, chunk_overlap)
ChunkerConstruct ==
    \E chunk_size \in ChunkSizes, chunk_overlap \in ChunkOverlaps :
        /\ chunker.pc # "loop"
        /\ chunker' = NewChunker(chunk_size, chunk_overlap)
        /\ UNCHANGED <<engine, writers, formatted, scenarios>>

\* split_text(text, metadata) up to the while loop: chars is the length of
\* the stripped text, total_tokens the number of tokens of the text with
\* the metadata header in front
SplitTextCall ==
    \E chars \in 0..1, total_tokens \in 1..MaxTokens :
        /\ chunker.pc # "loop"
        /\ chunker' =
             IF chars = 0
             THEN [chunker EXCEPT !.pc = "done", !.blank = TRUE,
                                  !.total_tokens = 0, !.start = 0,
                                  !.chunk_index = 0, !.chunks = << >>]
             ELSE IF total_tokens <= chunker.chunk_size
             THEN [chunker EXCEPT !.pc = "done", !.blank = FALSE,
                                  !.total_tokens = total_tokens, !.start = 0,
                                  !.chunk_index = 0,
                                  !.chunks = << [chunk_index |-> 0, start |-> 0,
                                                 token_count |-> total_tokens] >>]
             ELSE [chunker EXCEPT !.pc = "loop", !.blank = FALSE,
                                  !.total_tokens = total_tokens, !.start = 0,
                                  !.chunk_index = 0, !.chunks = << >>]
        /\ UNCHANGED <<engine, writers, formatted, scenarios>>

\* one iteration of `while start < total_tokens` (a call that has appended
\* more chunks than the text has tokens is not followed any further)
SplitTextIterate ==
    /\ chunker.pc = "loop"
    /\ chunker.start < chunker.total_tokens
    /\ Len(chunker.chunks) <= MaxTokens
    /\ chunker' = [chunker EXCEPT !.chunks = Append(@, WindowChunk(chunker)),
                                  !.start = NextStart(chunker),
                                  !.chunk_index = @ + 1]
    /\ UNCHANGED <<engine, writers, formatted, scenarios>>

\* the loop condition fails: return chunks
SplitTextReturn ==
    /\ chunker.pc = "loop"
    /\ chunker.start >= chunker.total_tokens
    /\ chunker' = [chunker EXCEPT !.pc = "done"]
    /\ UNCHANGED <<engine, writers, formatted, scenarios>>

\* format_score(score)
FormatScore ==
    \E score \in Scores :
        /\ formatted' = [called |-> TRUE, score |-> score,
                         text |-> format_score(score)]
        /\ UNCHANGED <<engine, chunker, writers, scenarios>>

\* the store, the pipeline and the clear command, exposed to the faults of
\* the MongoDB, embedding and FAISS calls
Next ==
    \/ Construct
    \/ \E skip_duplicates \in BOOLEAN : IndexChunks(skip_duplicates, FALSE)
    \/ ProcessAthleteIndexing(FALSE)
    \/ DeleteAthleteChunks
    \/ RebuildIndex(FaultKinds(FALSE))
    \/ Close(FaultKinds(FALSE))
    \/ ClearIndex(FaultKinds(FALSE))

Spec == Init /\ [][Next]_vars

\* the operations of one VectorStore instance and of the pipeline on it,
\* and the clear command; every index_chunks call is made with
\* skip_duplicates=true
NextSkipDuplicates ==
    \/ IndexChunks(TRUE, FALSE)
    \/ ProcessAthleteIndexing(FALSE)
    \/ DeleteAthleteChunks
    \/ RebuildIndex(FaultKinds(FALSE))
    \/ ClearIndex(FaultKinds(FALSE))

SpecSkipDuplicates == Init /\ [][NextSkipDuplicates]_vars

\* the commands of the CLI and the maintenance operations of the store: the
\* pipeline runs, the clear command and new instances, exposed to the
\* faults of the MongoDB, embedding and FAISS calls
NextPipeline ==
    \/ Construct
    \/ ProcessAthleteIndexing(FALSE)
    \/ DeleteAthleteChunks
    \/ RebuildIndex(FaultKinds(FALSE))
    \/ Close(FaultKinds(FALSE))
    \/ ClearIndex(FaultKinds(FALSE))

SpecPipeline == Init /\ [][NextPipeline]_vars

\* the public operations of VectorStore called directly, and the clear
\* command, exposed to the faults of the MongoDB and FAISS calls
NextStore ==
    \/ Construct
    \/ \E skip_duplicates \in BOOLEAN : IndexChunks(skip_duplicates, FALSE)
    \/ DeleteAthleteChunks
    \/ RebuildIndex(FaultKinds(FALSE))
    \/ Close(FaultKinds(FALSE))
    \/ ClearIndex(FaultKinds(FALSE))

SpecStore == Init /\ [][NextStore]_vars

\* the store, the pipeline and the clear command, exposed to the faults of
\* the file operations
NextPersistence ==
    \/ Construct
    \/ \E skip_duplicates \in BOOLEAN : IndexChunks(skip_duplicates, TRUE)
    \/ ProcessAthleteIndexing(TRUE)
    \/ DeleteAthleteChunks
    \/ RebuildIndex(FaultKinds(TRUE))
    \/ Close(FaultKinds(TRUE))
    \/ ClearIndex(FaultKinds(TRUE))

SpecPersistence == Init /\ [][NextPersistence]_vars

\* the pipeline writing the index files (exposed to the faults of the file
\* operations), the clear command and a retriever constructed on the files
NextRetriever ==
    \/ ProcessAthleteIndexing(TRUE)
    \/ DeleteAthleteChunks
    \/ RebuildIndex(FaultKinds(TRUE))
    \/ Close(FaultKinds(TRUE))
    \/ ClearIndex(FaultKinds(TRUE))
    \/ Construct
    \/ RetrieverConstruct

SpecRetriever == Init /\ [][NextRetriever]_vars

\* a store filled chunk by chunk, cleared and rebuilt, and a retriever
\* constructed on its files; no call meets a fault
NextSearch ==
    \/ IndexChunksFrom(SearchBatches, TRUE, {})
    \/ DeleteAthleteChunks
    \/ RebuildIndex({})
    \/ ClearIndex({})
    \/ RetrieverConstruct

SpecSearch == Init /\ [][NextSearch]_vars

\* a store filled, chunk by chunk, with embeddings of any value, exposed
\* to the faults of the MongoDB and FAISS calls
NextEmbeddings ==
    \/ IndexChunksFrom(EmbeddingBatches, TRUE, {"find_one", "insert_one", "index_add"})
    \/ DeleteAthleteChunks
    \/ RebuildIndex(FaultKinds(FALSE))
    \/ ClearIndex(FaultKinds(FALSE))
    \/ Construct

SpecEmbeddings == Init /\ [][NextEmbeddings]_vars

\* the pipeline in batch mode and in single runs, exposed to the faults of
\* the MongoDB, embedding and FAISS calls
NextBatch ==
    \/ ProcessAllAthletes(FALSE)
    \/ ProcessAthleteIndexing(FALSE)

SpecBatch == Init /\ [][NextBatch]_vars

\* two VectorStore instances on one index path and one Metadata Store, the
\* steps of their index_chunks calls interleaved
NextWriters ==
    \E w \in Writers :
        \/ WriterConstruct(w)
        \/ WriterIndexExists(w)
        \/ WriterMappingExists(w)
        \/ WriterReadIndex(w)
        \/ WriterLoadMapping(w)
        \/ WriterIndexChunks(w)
        \/ WriterFindOne(w)
        \/ WriterInsertOne(w)
        \/ WriterAdd(w)
        \/ WriterWriteIndex(w)
        \/ WriterOpenMapping(w)
        \/ WriterDumpMapping(w)

SpecWriters == Init /\ [][NextWriters]_vars

\* a TextChunker and its split_text calls
NextChunker ==
    \/ ChunkerConstruct
    \/ SplitTextCall
    \/ SplitTextIterate
    \/ SplitTextReturn

SpecChunker == Init /\ [][NextChunker]_vars

\* the calls of format_score
NextUtils == FormatScore

SpecUtils == Init /\ [][NextUtils]_vars


\* one pipeline, its runs followed stage by stage, exposed to the faults of
\* the MongoDB, embedding and FAISS calls
NextRun ==
    \/ RunCall
    \/ RunFetch
    \/ RunChunk
    \/ RunEmbed
    \/ RunIndex

SpecRun == Init /\ [][NextRun]_vars

\* the same; a run that was called goes on (every stage is a finite
\* computation of one thread)
SpecRunFair == SpecRun /\ WF_vars(RunFetch \/ RunChunk \/ RunEmbed \/ RunIndex)

\* VectorStore instances of any embedding_dimension, one after the other,
\* on one index path
NextDimension ==
    \/ DimConstruct
    \/ DimIndexChunks
    \/ DimRebuildIndex
    \/ DimClose

SpecDimension == Init /\ [][NextDimension]_vars

\* filtered retrieve calls on indexes of many chunks
NextProbe == ProbeRetrieve

SpecProbe == Init /\ [][NextProbe]_vars

----------------------------------------------------------------------------
(* Properties *)

\* the Metadata Documents stored for one (source_doc_id, chunk_index) pair
DocsOfKey(metadata, source_doc_id, chunk_index) ==
    { d \in metadata : d.source_doc_id = source_doc_id /\ d.chunk_index = chunk_index }

\* the step is a call of index_chunks (directly or by a pipeline run) that returned
IndexingReturned ==
    /\ last'.op \in {"index_chunks", "process"}
    /\ last'.status # "error"

\* C1: when every index_chunks call is made with skip_duplicates=true, the
\* Metadata Store never holds two documents for one (source_doc_id,
\* chunk_index) pair, and the count a call returns is the number of
\* documents it added: a pair indexed twice is counted once.
C1_DuplicateSuppression ==
    /\ [](\A d1, d2 \in metadata_collection :
            (d1.source_doc_id = d2.source_doc_id /\ d1.chunk_index = d2.chunk_index)
            => d1 = d2)
    /\ [][IndexingReturned =>
            /\ last'.inserted = Cardinality(metadata_collection')
                                - Cardinality(metadata_collection)
            /\ \A d \in metadata_collection :
                   DocsOfKey(metadata_collection', d.source_doc_id, d.chunk_index)
                   = DocsOfKey(metadata_collection, d.source_doc_id, d.chunk_index)
         ]_vars

\* a call met a chunk whose pair was already stored, skipped it, and
\* returned the count of the one chunk it inserted
C1_Witness ==
    /\ last.op = "index_chunks"
    /\ last.status = "ok"
    /\ last.duplicates >= 1
    /\ last.inserted = 1

\* the store state a run may change: the Metadata Store, the vectors, the
\* id-mapping and the next-id counter
RunChangesNothing ==
    /\ metadata_collection' = metadata_collection
    /\ index' = index
    /\ faiss_id_to_metadata_id' = faiss_id_to_metadata_id
    /\ next_faiss_id' = next_faiss_id

\* C2 as stated: a run with skip_indexed=true that directly follows a run
\* with skip_indexed=true for the same athlete (which returned) inserts no
\* Metadata Document and appends no vector.
C2_SecondRunInsertsNothing ==
    [][(last'.op = "process" /\ last'.repeat \in {"run", "clean"})
        => RunChangesNothing]_vars

\* C3: every id in the id-mapping is the position of a stored vector, and
\* the vector at that position is the one inserted with the Metadata
\* Document the id is mapped to (ids are assigned as the vector count at
\* the time of the append).
C3_IdIsPositionOfOwnVector ==
    \A id \in DOMAIN faiss_id_to_metadata_id :
        /\ id < Len(index)
        /\ StrOid(index[id + 1].oid) = faiss_id_to_metadata_id[id]

\* C4: when a pipeline run fails, none of the vectors of the chunks it
\* inserted (the Metadata Documents with keys from next_oid on) is in the
\* in-memory index or in the persisted index file afterwards.
C4_FailedRunCommitsNoVector ==
    [][(last'.op = "process" /\ last'.status = "error") =>
          /\ \A i \in 1..Len(index') : index'[i].oid < next_oid
          /\ \A i \in 1..Len(index_file'.vecs) : index_file'.vecs[i].oid < next_oid
      ]_vars

\* a run failed after it had inserted Metadata Documents
C4_Witness ==
    /\ last.op = "process"
    /\ last.status = "error"
    /\ last.inserted >= 1


\* C5: the next-id counter never decreases and no two Metadata Documents
\* carry the same faiss_id.
C5_IdsNeverReused ==
    /\ [][next_faiss_id' >= next_faiss_id]_vars
    /\ [](\A d1, d2 \in metadata_collection :
            d1.faiss_id = d2.faiss_id => d1 = d2)

\* the stored vectors of a are still there, at the same positions, in b
IsPrefix(a, b) ==
    /\ Len(a) <= Len(b)
    /\ \A i \in 1..Len(a) : a[i] = b[i]

\* C6 as stated: during the lifetime of an instance (any step but the
\* construction of a new one) no stored vector is removed or changed.
C6_AppendOnly ==
    [][last'.op # "construct" => IsPrefix(index, index')]_vars

\* C6, amended: no public operation other than rebuild_index removes or
\* changes a stored vector.
C6_AppendOnlyButRebuild ==
    [][last'.op \notin {"construct", "rebuild"} => IsPrefix(index, index')]_vars

\* a batch was appended behind the vectors already stored
C6_Witness ==
    /\ last.op \in {"index_chunks", "process"}
    /\ last.inserted >= 1
    /\ Len(index) > last.inserted

\* the two files are a matching pair: the mapping file's next-id is the
\* stored vector count and every stored vector id has a mapping entry
MatchingPair(ifile, mfile) ==
    /\ ifile.st = "ok"
    /\ mfile.st = "ok"
    /\ mfile.next_id = Len(ifile.vecs)
    /\ \A id \in 0..(Len(ifile.vecs) - 1) : id \in DOMAIN mfile.mapping

\* C7: at every point in time the files on disk are a matching pair (or no
\* file has been written yet).
C7_FilesSavedAsUnit ==
    \/ index_file.st = "absent" /\ mapping_file.st = "absent"
    \/ MatchingPair(index_file, mapping_file)

\* C8: a VectorStore constructed on files that are not both present and
\* mutually consistent starts from a fresh empty index.
C8_LoadOnlyMatchingPair ==
    (last.op = "construct" /\ ~MatchingPair(index_file, mapping_file))
    => /\ index = << >>
       /\ faiss_id_to_metadata_id = EmptyMapping
       /\ next_faiss_id = 0

\* C9: loading never fails; on missing or unreadable files the loader
\* starts from an empty index, in the VectorStore and in the FAISSRetriever.
C9_LoadNeverFails ==
    /\ retriever.status # "raised"
    /\ (last.op = "construct" /\ (index_file.st # "ok" \/ mapping_file.st # "ok"))
       => /\ index = << >>
          /\ faiss_id_to_metadata_id = EmptyMapping
          /\ next_faiss_id = 0

\* the filters of a search
AthleteFilters == Athletes \cup {NoAthlete}

\* the last operation called _save_index: close, a rebuild_index that got
\* past find(), or an index_chunks call (directly or by a pipeline run)
\* that appended a batch
SaveCalled ==
    \/ last.op = "close"
    \/ last.op = "rebuild" /\ last.status = "ok"
    \/ last.op \in {"index_chunks", "process"} /\ last.status # "error"
                                                /\ last.inserted >= 1

\* C10: after every save, a fresh instance loaded from the files has the
\* same vectors at the same positions, the same id-mapping and the same
\* next-id counter as the saving instance, and answers every search as the
\* saving instance does.
C10_SaveLoadRoundTrip ==
    SaveCalled =>
        LET loaded == LoadIndex(index_file, mapping_file) IN
        /\ loaded.index = index
        /\ loaded.mapping = faiss_id_to_metadata_id
        /\ loaded.next_id = next_faiss_id
        /\ \A q \in Queries, k \in 1..MaxK, a \in AthleteFilters :
               search_similar(loaded.index, loaded.mapping, metadata_collection, q, a, k)
               = search_similar(index, faiss_id_to_metadata_id, metadata_collection, q, a, k)

\* the queries of the searches: the query embeddings and the zero vector
SearchQueries == Queries \cup { << 0, 0 >> }

\* the Metadata Documents attributed to an athlete
EntityDocs(metadata, athlete_name) ==
    { d \in metadata : d.athlete_name = athlete_name }

\* C12: a search with an athlete filter E, by VectorStore.search_similar or
\* by FAISSRetriever.retrieve, returns only results whose Metadata Document
\* is attributed to E, and at most as many as there are such documents.
C12_FilterByEntity ==
    \A q \in Queries, k \in 1..MaxK, a \in Athletes :
        /\ LET res == search_similar(index, faiss_id_to_metadata_id,
                                     metadata_collection, q, a, k)
           IN  /\ \A i \in 1..Len(res) : res[i].chunk.athlete_name = a
               /\ Len(res) <= Cardinality(EntityDocs(metadata_collection, a))
        /\ retriever.status = "loaded" =>
             \A m \in MinSimilarities :
                LET res == retrieve(retriever.index, retriever.mapping,
                                    metadata_collection, q, a, k, m)
                IN  /\ \A i \in 1..Len(res) : res[i].athlete_name = a
                    /\ Len(res) <= Cardinality(EntityDocs(metadata_collection, a))

\* a retriever whose unfiltered search returns a chunk of athlete A and
\* whose search filtered on B returns chunks of B
C12_Witness ==
    /\ retriever.status = "loaded"
    /\ \E q \in Queries :
         /\ retrieve(retriever.index, retriever.mapping, metadata_collection,
                     q, "B", MaxK, 0 - 2000) # << >>
         /\ LET all == retrieve(retriever.index, retriever.mapping,
                                metadata_collection, q, NoAthlete, MaxK, 0 - 2000)
            IN  \E i \in 1..Len(all) : all[i].athlete_name = "A"

\* a candidate has a mapping entry, an existing Metadata Document of the
\* wanted athlete and a similarity of at least min_similarity
Accepted(hit, mapping, metadata, athlete_name, min_similarity) ==
    /\ hit.id \in DOMAIN mapping
    /\ \E d \in metadata :
         /\ StrOid(d.id) = mapping[hit.id]
         /\ athlete_name = NoAthlete \/ d.athlete_name = athlete_name
    /\ hit.score >= min_similarity

\* the result entries of the first top_k accepted candidates
FirstAccepted(hits, mapping, metadata, athlete_name, top_k, min_similarity) ==
    LET acc == SelectSeq(hits, LAMBDA h : Accepted(h, mapping, metadata,
                                                   athlete_name, min_similarity))
    IN  [i \in 1..Min(top_k, Len(acc)) |->
            RetrievedChunk(CHOOSE d \in metadata : StrOid(d.id) = mapping[acc[i].id],
                           acc[i].score)]

\* C13: retrieve returns at most top_k results, by non-increasing
\* similarity: the first top_k of the candidates fetched from the index
\* (in its descending score order) that have a mapping entry, an existing
\* Metadata Document, the wanted athlete and similarity >= min_similarity.
C13_RetrieveFirstTopK ==
    retriever.status = "loaded" =>
        \A q \in Queries, k \in 1..MaxK, a \in AthleteFilters,
           m \in MinSimilarities :
            LET res == retrieve(retriever.index, retriever.mapping,
                                metadata_collection, q, a, k, m)
            IN  /\ Len(res) <= k
                /\ \A i \in 1..(Len(res) - 1) :
                       res[i].similarity >= res[i + 1].similarity
                /\ res = FirstAccepted(RetrieveHits(retriever.index, q, a, k),
                                       retriever.mapping, metadata_collection,
                                       a, k, m)

\* a retrieve whose best candidate is skipped and which returns a later one
C13_Witness ==
    /\ retriever.status = "loaded"
    /\ \E q \in Queries :
         LET hits == RetrieveHits(retriever.index, q, "A", 1)
             ok(h) == Accepted(h, retriever.mapping, metadata_collection, "A", 0)
         IN  /\ ~ok(hits[1])
             /\ hits[1].id # 0 - 1
             /\ retrieve(retriever.index, retriever.mapping, metadata_collection,
                         q, "A", 1, 0) # << >>

\* a query embedding of another dimension than the index
OtherDimensionQuery == << 1, 0, 0 >>

\* C14: a search on an index without vectors returns the empty list and
\* does not raise, in search_similar (whatever the query) and in retrieve;
\* a search none of whose candidates passes returns the empty list.
C14_EmptyIndexEmptyResult ==
    /\ Len(index) = 0 =>
         \A q \in Queries \cup {OtherDimensionQuery}, k \in 1..MaxK,
            a \in AthleteFilters :
             /\ ~search_similar_raises(index, q)
             /\ search_similar(index, faiss_id_to_metadata_id,
                               metadata_collection, q, a, k) = << >>
    /\ retriever.status = "loaded" =>
         \A q \in Queries, k \in 1..MaxK, a \in AthleteFilters,
            m \in MinSimilarities :
             LET hits == RetrieveHits(retriever.index, q, a, k) IN
             (\/ Len(retriever.index) = 0
              \/ \A i \in 1..Len(hits) :
                    ~Accepted(hits[i], retriever.mapping, metadata_collection, a, m))
             => RetrieveResults(hits, 1, retriever.mapping, metadata_collection,
                                a, k, m, << >>) = << >>

\* a store and a loaded retriever without vectors, over a Metadata Store
\* that still holds documents
C14_Witness ==
    /\ Len(index) = 0
    /\ retriever.status = "loaded"
    /\ Len(retriever.index) = 0
    /\ metadata_collection # {}

\* the squared L2 norm
NormSquared(v) == InnerProduct(v, v)

\* C19: every stored vector has unit L2 norm, every score of a (normalized)
\* query against a stored vector lies in [-1, 1], and a search with a
\* stored vector as the query returns a vector equal to it first, with
\* score 1.
C19_UnitNormScores ==
    /\ \A i \in 1..Len(index) : NormSquared(index[i].vec) = 1
    /\ \A q \in SearchQueries, i \in 1..Len(index) :
           InnerProduct(normalize_L2(q), index[i].vec) \in (0 - 1)..1
    /\ \A i \in 1..Len(index) :
           LET first == FaissSearch(index, normalize_L2(index[i].vec),
                                    1..Len(index), 1)[1]
           IN  /\ first.score = 1
               /\ index[first.id + 1].vec = index[i].vec

\* C18: whatever two writers on the same index do, the Metadata Store holds
\* no two documents for one (source_doc_id, chunk_index) and no two with
\* one faiss_id, and the saved index holds every vector of every writer
\* that is not in the middle of a call.
C18_SingleWriter ==
    /\ \A d1, d2 \in metadata_collection :
           (d1.source_doc_id = d2.source_doc_id /\ d1.chunk_index = d2.chunk_index)
           => d1 = d2
    /\ \A d1, d2 \in metadata_collection : d1.faiss_id = d2.faiss_id => d1 = d2
    /\ \A w \in Writers :
           writers[w].pc = "ready" =>
               \A i \in 1..Len(writers[w].index) :
                   \E j \in 1..Len(index_file.vecs) :
                       index_file.vecs[j] = writers[w].index[i]

\* the result the chunking rule gives for a text of T tokens: one chunk when
\* T <= chunk_size, else ceil(T / step) windows of at most chunk_size tokens
ExpectedChunks(chunk_size, chunk_overlap, T) ==
    LET step == chunk_size - chunk_overlap
        n == IF T <= chunk_size THEN 1 ELSE (T + step - 1) \div step
    IN  [k \in 1..n |->
            [chunk_index |-> k - 1,
             start       |-> IF T <= chunk_size THEN 0 ELSE (k - 1) * step,
             token_count |-> IF T <= chunk_size THEN T
                             ELSE Min(chunk_size, T - (k - 1) * step)]]

\* C15: a split_text call on a non-blank text of T tokens (the tokens of
\* the text as tokenized, metadata header included) returns one chunk with
\* chunk_index 0 and token_count T when T <= chunk_size, and otherwise
\* ceil(T / (chunk_size - overlap)) chunks, chunk i starting at token
\* i * (chunk_size - overlap) with min(chunk_size, T - start) tokens.
C15_ChunkWindows ==
    (chunker.pc = "done" /\ ~chunker.blank)
    => chunker.chunks = ExpectedChunks(chunker.chunk_size, chunker.chunk_overlap,
                                       chunker.total_tokens)

\* a call returned three or more overlapping windows, the last one shorter
\* than chunk_size
C15_Witness ==
    /\ chunker.pc = "done"
    /\ chunker.chunk_overlap >= 1
    /\ Len(chunker.chunks) >= 3
    /\ chunker.chunks[Len(chunker.chunks)].token_count < chunker.chunk_size

\* C16: every constructed chunker has chunk_size > 0 and chunk_overlap <
\* chunk_size, and every iteration of the striding loop moves the window
\* start forward (so the loop ends).
C16_ChunkerTerminates ==
    /\ [](chunker.chunk_size > 0 /\ chunker.chunk_overlap < chunker.chunk_size)
    /\ [][(chunker.pc = "loop" /\ chunker'.pc = "loop")
            => chunker'.start > chunker.start]_vars

\* C20: format_score returns the two-decimal text of every number, zero
\* included, and "N/A" only for None.
C20_FormatScore ==
    formatted.called =>
        /\ ~formatted.score.none => formatted.text = TwoDecimals(formatted.score.milli)
        /\ formatted.text = "N/A" => formatted.score.none

\* C11: process_all_athletes returns one entry per requested athlete, in
\* the order requested; an entry with status error carries the message of
\* the exception; the entries after it are those of runs that were made
\* (the Metadata Store has grown by at least the chunks they report).
C11_BatchOneEntryPerAthlete ==
    [][last'.op = "process_all" =>
         /\ Len(last'.returned) = Len(last'.requested)
         /\ \A k \in 1..Len(last'.requested) :
              /\ last'.returned[k].athlete_name = last'.requested[k]
              /\ last'.returned[k].status = "error"
                 => /\ "error" \in DOMAIN last'.returned[k]
                    /\ last'.returned[k].error # ""
              /\ last'.returned[k].status # "error"
                 => Cardinality({ d \in metadata_collection' \ metadata_collection :
                                    d.athlete_name = last'.requested[k] })
                    >= last'.returned[k].chunks_indexed
      ]_vars

\* a batch whose first run raised and whose second run indexed chunks
C11_Witness ==
    /\ last.op = "process_all"
    /\ Len(last.returned) = 2
    /\ last.returned[1].status = "error"
    /\ last.returned[2].status = "success"
    /\ last.returned[2].chunks_indexed >= 1

\* the six fields of the statistics record
StatsFields ==
    {"athlete_name", "documents_loaded", "chunks_created", "chunks_indexed",
     "duration_seconds", "status"}

\* C17: every record a pipeline call returned, the error entries of batch
\* mode included, carries the six fields of the statistics record.
C17_StatsHaveSixFields ==
    \A k \in 1..Len(last.returned) : StatsFields \subseteq DOMAIN last.returned[k]

\* the stages of a run in the order of the code
StageOrder == << "fetch", "chunk", "embed", "index" >>

\* the stage of that name was executed and returned
StageReturned(stage) ==
    \E k \in 1..Len(staged.stages) :
        /\ staged.stages[k] = stage
        /\ ~(staged.raised /\ k = Len(staged.stages))

\* the stages executed so far are an initial part of fetch, chunk, embed,
\* index (in order, each at most once), and a run that ended has the status
\* its last stage determines
StagesAndStatus ==
    /\ IsPrefix(staged.stages, StageOrder)
    /\ staged.pc \notin {"idle", "done"} => staged.status = ""
    /\ staged.pc = "done" =>
        /\ staged.status \in {"no_new_documents", "no_chunks_created", "success", "error"}
        /\ staged.status = "no_new_documents"
           <=> (StageReturned("fetch") /\ staged.documents = << >>)
        /\ staged.status = "no_new_documents" => staged.stages = << "fetch" >>
        /\ staged.status = "no_chunks_created"
           <=> (StageReturned("chunk") /\ staged.chunks = << >>)
        /\ staged.status = "no_chunks_created" => staged.stages = << "fetch", "chunk" >>
        /\ staged.status = "success" <=> StageReturned("index")
        /\ staged.status = "error" <=> staged.raised

\* C21: every run executes fetch, chunk, embed, index in that order, each
\* at most once, and ends, in exactly one status: no_new_documents iff
\* fetch returned no documents (nothing else is executed), no_chunks_created
\* iff chunking returned no chunks (embed and index are not executed),
\* success iff the index stage returned, error iff a stage raised.
C21_StagesInOrder ==
    /\ []StagesAndStatus
    /\ (staged.pc \notin {"idle", "done"}) ~> (staged.pc = "done")

\* a run on an athlete whose passages are all indexed ended after the fetch
C21_Witness ==
    /\ staged.pc = "done"
    /\ staged.status = "no_new_documents"
    /\ staged.stages = << "fetch" >>
    /\ \E d \in metadata_collection : d.athlete_name = staged.athlete_name

\* C22: whatever the batch, the skip_duplicates flag and the fault met, the
\* writes of an index_chunks call are the inserts of the batch, then one
\* append, then one save; the append and the save are made exactly when the
\* call inserted at least one Metadata Document.
C22_InsertsThenAddThenSave ==
    \A chunks \in PipelineBatches \cup SearchBatches, skip_duplicates \in BOOLEAN :
    \A fault \in CallFaults(Len(chunks), FALSE) \cup CallFaults(Len(chunks), TRUE) :
        LET r == index_chunks(Store, chunks, skip_duplicates, fault)
            n == Cardinality(r.metadata \ metadata_collection)
        IN  r.events = [k \in 1..n |-> "insert"]
                       \o (IF n > 0 THEN << "add", "save" >> ELSE << >>)

\* a chunk whose embedding is empty
EmptyEmbeddingChunk ==
    [source_doc_id |-> "y_0", athlete_name |-> "B", chunk_index |-> 0,
     token_count |-> 1, embedding |-> << >>]

\* the batches of valid chunks an invalid chunk is put into
ValidBatches == UNION { [1..n -> PipelineChunks] : n \in 0..MaxBatch }

\* the batch b with the chunk x behind its first p chunks
InsertAt(b, p, x) == SubSeq(b, 1, p) \o << x >> \o SubSeq(b, p + 1, Len(b))

\* C23: a chunk with an empty embedding or one of the wrong length, at any
\* position of a batch, changes nothing about the call: it does not raise,
\* and the Metadata Store, the index, the id-mapping, the next id, the files
\* and the returned count are those of the call on the batch without it; no
\* Metadata Document is stored for it, and with skip_duplicates every other
\* chunk of the batch has its Metadata Document afterwards.
C23_InvalidEmbeddingRejected ==
    \A b \in ValidBatches, x \in {InvalidChunk, EmptyEmbeddingChunk} :
    \A p \in 0..Len(b), skip_duplicates \in BOOLEAN :
        LET with == index_chunks(Store, InsertAt(b, p, x), skip_duplicates, NoFault)
            without == index_chunks(Store, b, skip_duplicates, NoFault)
        IN  /\ ~with.raised
            /\ with = without
            /\ \A d \in with.metadata : d.source_doc_id # x.source_doc_id
            /\ Len(with.index) = Len(index) + with.inserted
            /\ skip_duplicates =>
                   \A k \in 1..Len(b) :
                       DocsOfKey(with.metadata, b[k].source_doc_id, b[k].chunk_index) # {}

\* a store that holds chunks, and a batch of an indexed chunk, an invalid
\* chunk and a new chunk: the call skips the first two and indexes the third
C23_Witness ==
    /\ metadata_collection # {}
    /\ staged.status = "success"
    /\ \E b \in ValidBatches, x \in {InvalidChunk, EmptyEmbeddingChunk} :
           LET with == index_chunks(Store, InsertAt(b, 1, x), TRUE, NoFault) IN
           /\ Len(b) = 2
           /\ with.duplicates = 1
           /\ with.inserted = 1
           /\ Len(with.index) = Len(index) + 1

\* C24: the dimension of the in-memory index of a VectorStore is the
\* embedding_dimension it was constructed with, and a construction on index
\* files of another dimension fails instead of loading them.
C24_IndexDimensionIsConfigured ==
    /\ dim_store.embedding_dimension # 0 => dim_store.d = dim_store.embedding_dimension
    /\ ~(dim_store.status = "loaded" /\ dim_store.file_d # dim_store.embedding_dimension)

\* C25: delete_athlete_chunks(E) removes exactly the Metadata Documents of
\* E; the vectors, the id-mapping, the next id and the two index files stay
\* as they are, and so does every document of another athlete; a search
\* after it, filtered or not, does not raise and returns no chunk of E,
\* only chunks whose document is still stored.
C25_DeleteMetadataOnly ==
    [][last'.op = "delete" =>
         /\ metadata_collection'
              = metadata_collection \ EntityDocs(metadata_collection, last'.athlete)
         /\ UNCHANGED <<index, faiss_id_to_metadata_id, next_faiss_id,
                        index_file, mapping_file>>
         /\ \A q \in Queries, k \in 1..MaxK, a \in AthleteFilters :
                LET res == search_similar(index', faiss_id_to_metadata_id',
                                          metadata_collection', q, a, k)
                IN  \A i \in 1..Len(res) :
                        /\ res[i].chunk.athlete_name # last'.athlete
                        /\ res[i].chunk \in metadata_collection'
      ]_vars

\* after a delete: a vector whose Metadata Document is gone is still in the
\* index and is the best match of a query, documents of the other athlete
\* are still stored, and the search returns one of those instead
C25_Witness ==
    /\ last.op = "delete"
    /\ \E d \in metadata_collection : d.athlete_name # last.athlete
    /\ \E q \in Queries :
           LET best == FaissSearch(index, normalize_L2(q), 1..Len(index), 1)[1]
               res == search_similar(index, faiss_id_to_metadata_id,
                                     metadata_collection, q, NoAthlete, MaxK)
           IN  /\ \A d \in metadata_collection : d.id # index[best.id + 1].oid
               /\ res # << >>

\* the calls the claim names: the embedding model and the Metadata Store
\* (the duplicate lookup, the insert, the queries of the fetch stage)
EmbeddingOrStoreFaults == {"fetch", "encode", "find_one", "insert_one"}

\* C26: in batch mode, when the embedding call or a Metadata Store call of
\* the run of an athlete fails (the batch does not go as it does without
\* the fault), the entry of that athlete has status error, and there is an
\* entry for every athlete after it.
C26_FailedCallIsErrorEntry ==
    \A athlete_names \in NameLists :
    \A faults \in BatchFaults(Len(athlete_names), FALSE) :
        LET batch == process_all_athletes(Untouched(Store, FALSE), athlete_names,
                                          faults, << >>)
            clean == process_all_athletes(Untouched(Store, FALSE), athlete_names,
                                          [k \in 1..Len(athlete_names) |-> NoFault],
                                          << >>)
        IN  \A k \in 1..Len(athlete_names) :
                (faults[k].kind \in EmbeddingOrStoreFaults /\ batch # clean)
                => /\ Len(batch.results) = Len(athlete_names)
                   /\ batch.results[k].status = "error"
                   /\ \A j \in (k + 1)..Len(athlete_names) :
                          batch.results[j].athlete_name = athlete_names[j]

\* the Metadata Document has its vector in the index at position faiss_id
HasVectorAtId(d) ==
    /\ d.faiss_id < Len(index)
    /\ index[d.faiss_id + 1].oid = d.id

\* C27: when the runs of one athlete, some of which failed after inserting
\* Metadata Documents, are followed by a run for that athlete that returns
\* success, the athlete has no two Metadata Documents for one
\* (source_doc_id, chunk_index), and each of its Metadata Documents has its
\* vector in the index at the position given by its faiss_id.
C27_RerunRestoresSync ==
    (/\ last.op = "process"
     /\ last.status = "success"
     /\ \A d \in metadata_collection : d.athlete_name = last.athlete)
    => /\ \A d \in metadata_collection :
              DocsOfKey(metadata_collection, d.source_doc_id, d.chunk_index) = {d}
       /\ \A d \in metadata_collection : HasVectorAtId(d)

\* C28: after a run that returned success with chunks_indexed > 0, an
\* instance constructed on the index files has the vectors, the id-mapping
\* and the next id of the instance that made the run (the chunks of the run
\* included): a run whose save failed does not return success.
C28_SuccessMeansSaved ==
    (/\ last.op = "process"
     /\ last.status = "success"
     /\ last.inserted > 0)
    => LoadIndex(index_file, mapping_file)
         = [index |-> index, mapping |-> faiss_id_to_metadata_id,
            next_id |-> next_faiss_id]

\* C29: when at least top_k chunks of the athlete of the filter are indexed
\* with their Metadata Documents and a similarity of at least
\* min_similarity, retrieve returns exactly top_k chunks, all of that
\* athlete, however many chunks of another athlete score higher.
C29_FilterReturnsTopK ==
    (probe.called /\ probe.own >= probe.top_k)
    => /\ probe.status = "returned"
       /\ Len(probe.results) = probe.top_k
       /\ \A i \in 1..Len(probe.results) : probe.results[i].athlete_name = "A"

\* the token positions a chunk covers
Covered(chunk) == chunk.start..(chunk.start + chunk.token_count - 1)

\* the token positions covered by the first k chunks of the call
CoveredUpTo(k) == UNION { Covered(chunker.chunks[j]) : j \in 1..k }

\* a split_text call on a text longer than chunk_size, by a chunker whose
\* overlap is smaller than its chunk size, has returned
SplitLongText ==
    /\ chunker.pc = "done"
    /\ ~chunker.blank
    /\ chunker.chunk_overlap < chunker.chunk_size
    /\ chunker.total_tokens > chunker.chunk_size

\* C30 as stated: every chunk after the first contains a token position
\* that no earlier chunk covers, and the chunks together cover 0..T-1.
C30_EveryChunkAddsTokens ==
    SplitLongText =>
        /\ \A k \in 2..Len(chunker.chunks) :
               Covered(chunker.chunks[k]) \ CoveredUpTo(k - 1) # {}
        /\ CoveredUpTo(Len(chunker.chunks)) = 0..(chunker.total_tokens - 1)

\* C30: the chunks together cover every token position 0..T-1 and every
\* chunk after the first starts later than its predecessor; it contains a
\* position no earlier chunk covers exactly when its predecessor ends
\* before the end of the text, and is wholly contained in its predecessor
\* otherwise.
C30_ChunksCoverText ==
    SplitLongText =>
        /\ CoveredUpTo(Len(chunker.chunks)) = 0..(chunker.total_tokens - 1)
        /\ \A k \in 2..Len(chunker.chunks) :
               LET prev == chunker.chunks[k - 1]
                   this == chunker.chunks[k]
               IN  /\ this.start > prev.start
                   /\ this.token_count >= 1
                   /\ (Covered(this) \ CoveredUpTo(k - 1) # {})
                      <=> (prev.start + prev.token_count < chunker.total_tokens)
                   /\ (prev.start + prev.token_count = chunker.total_tokens)
                      => Covered(this) \subseteq Covered(prev)

\* a call returned three or more chunks, the last of them wholly contained
\* in the one before it
C30_Witness ==
    /\ SplitLongText
    /\ Len(chunker.chunks) >= 3
    /\ Covered(chunker.chunks[Len(chunker.chunks)])
          \subseteq Covered(chunker.chunks[Len(chunker.chunks) - 1])

====
